---- MODULE Spec2Model ----
(***************************************************************************)
(* Job/process supervision layer of pmind-veo-mcp.                         *)
(*                                                                         *)
(* GenerationManager (the Registry) and GenerationWorker (the per-job      *)
(* process) share one JSON record file per job.  Both write it with the    *)
(* same protocol: open "<id>.tmp" for writing, dump, close, then rename    *)
(* the temporary file onto "<id>.json".  The model follows that protocol   *)
(* system call by system call, because the Registry and the worker use     *)
(* the SAME temporary path.                                                *)
(*                                                                         *)
(* Granularity.  One step is one system call (open, the write that the     *)
(* close flushes, rename, kill, a liveness probe) together with the pure   *)
(* Python code that follows it up to the next system call.  A record is    *)
(* a few hundred bytes, so json.dump's output stays in the io buffer and   *)
(* reaches the file in one write when the file is closed.                  *)
(***************************************************************************)
EXTENDS Naturals, FiniteSets, Sequences, TLC

\* ------------------------------------------------------------------ bounds
\* Polling iterations the worker may report before the operation is done
\* or times out (veo_client.poll_until_complete loops until max_wait_time).
MaxPolls == 1
\* Calls of get_status / cancel_generation made by clients over one run.
MaxCalls == 1
\* Result artifacts a successful generation may return.
MaxVideos == 1

\* The seconds and the microseconds of the clock that stamps started_at.
MaxSec == 1
MaxMicro == 1

\* Files veo_download_video fetches over one run.
MaxDownloads == 2

\* The older_than_days a client may pass to veo_cleanup_sessions.
MaxDays == 1

\* veo_cleanup_sessions, line 334: 24 * 60 * 60.
SecondsPerDay == 86400

\* cancel_generation, line 317: for _ in range(50).
GraceLimit == 50

\* veo_client.poll_until_complete, line 155: max_wait_time, seconds.
MaxWaitTime == 600
\* veo_client.poll_until_complete, line 231: time.sleep(20).
PollInterval == 20
\* The seconds one client.operations.get call may take before it returns.
MaxCallSeconds == 1

JobIds == {"J1"}
\* The jobs of a state directory that holds the records of several jobs.
ListJobs == {"J1", "J2"}
\* veo_generate_video runs start_generation and get_status on the server's
\* event loop; veo_check_generation hands get_status to a pool thread
\* (asyncio.to_thread), and cancel_generation is called from there too.
Threads == {"loop", "pool"}

\* ----------------------------------------------------------------- records
NonTerminal == {"starting", "running", "generating", "polling"}
Terminal == {"completed", "failed", "cancelled"}
Statuses == NonTerminal \cup Terminal

\* The pid the OS gives job j's worker (never 0; 0 stands for None).
PidOf(j) == IF j = "J1" THEN 1 ELSE 2

\* A Python dict is modelled with one field per key the supervision layer
\* reads; "missing" / 0 / "none" stand for an absent key or None, which
\* dict.get treats alike.  updated_at is kept relative to the write a dict
\* is part of: "now" when it has been set from the clock for that write,
\* "earlier" when it is the time of an earlier write (every value read from
\* a file is), "none" when the key is absent.
EmptyDict ==
  [status |-> "missing", pid |-> 0, error |-> "none", videos |-> 0,
   downloaded |-> << >>, updated_at |-> "none"]

\* start_generation's initial state dict.
InitialState ==
  [status |-> "starting", pid |-> 0, error |-> "none", videos |-> 0,
   downloaded |-> << >>, updated_at |-> "now"]

\* The initial state dict with the keys prompt, model, number_of_videos and
\* generation_config (lines 118-120, 126-131), which are set together from the
\* arguments of start_generation and appear in no update: request stands
\* for them, "given" is their value at creation.
RequestedState ==
  [k \in DOMAIN InitialState \cup {"request"} |->
     IF k = "request" THEN "given" ELSE InitialState[k]]

\* A dict whose updated_at was taken for a write that is over.
Aged(state) ==
  [state EXCEPT !.updated_at = IF @ = "none" THEN "none" ELSE "earlier"]

IsTerminal(s) == s \in Terminal
IsNonTerminal(s) == s \in NonTerminal

\* dict.update(updates): updates is a record over a subset of the keys.
HasKey(u, k) == k \in DOMAIN u
Merge(state, u) ==
  [k \in DOMAIN state |-> IF HasKey(u, k) THEN u[k] ELSE state[k]]

\* The worker's _update_state, lines 57-58: the updates, then updated_at.
WorkerUpdate(state, u) == [Merge(state, u) EXCEPT !.updated_at = "now"]

\* --------------------------------------------------------------- the files
\* The content of a path: no file, an empty file (just opened for writing),
\* one complete JSON document, or bytes that do not parse.
NoFile == [k |-> "none", r |-> EmptyDict]
EmptyFile == [k |-> "empty", r |-> EmptyDict]
TornFile == [k |-> "torn", r |-> EmptyDict]
Full(rec) == [k |-> "full", r |-> rec]

\* write(2) at offset 0 of a file that holds content c: on an empty file the
\* document is the content; on a file that already holds bytes the result
\* parses only if the new document covers the old bytes.
Overwrite(c, rec) ==
  IF c.k = "empty" \/ (c.k = "full" /\ c.r = rec)
  THEN {Full(rec)}
  ELSE {Full(rec), TornFile}

\* Where an open descriptor's file is now: still at the temporary path,
\* renamed onto the canonical path, or no longer reachable by any path.
FdAfterReplace(fd) ==
  CASE fd = "tmp" -> "canon"
    [] fd = "canon" -> "orphan"
    [] OTHER -> fd

\* ------------------------------------------------------------------- state
VARIABLES
  canon,   \* canon[j]: content of <state_dir>/<j>.json
  tmpf,    \* tmpf[j]: content of <state_dir>/<j>.tmp (shared by all writers)
  proc,    \* proc[j]: "unborn" (no such job yet), "none" (no worker
           \* process), "alive", "dead" (exited and reaped), "zombie"
           \* (exited, not reaped), "reused" (the worker is gone and
           \* its pid now belongs to an unrelated process), "struck" (that
           \* unrelated process has been sent a signal by the Registry),
           \* "unreadable" (the pid belongs to a process psutil may not
           \* inspect), "taken" (the pid belongs to the worker of another
           \* job)
  sig,     \* sig[j]: a SIGTERM/SIGINT is pending for job j's worker
  thread,  \* thread[t]: the Registry call a server thread is executing
  worker,  \* worker[j]: the worker process of job j
  calls    \* get_status / cancel_generation calls begun so far

vars == <<canon, tmpf, proc, sig, thread, worker, calls>>

\* What a call hands back to its caller.  kind: "none" (nothing returned
\* yet), "state" (get_status: the record, kept in thread[t].state),
\* "not_found", "cancel_error" (cancel refused, names the status),
\* "cancelled" (cancel succeeded), "generate_ok" / "generate_error"
\* (veo_generate_video), "raised" (an exception left the Registry method).
\* session: the result carries the job id.
NoRet == [kind |-> "none", session |-> FALSE, status |-> "none", error |-> "none"]
Ret(kind, session, status, error) ==
  [kind |-> kind, session |-> session, status |-> status, error |-> error]

\* tool: the MCP tool the call belongs to ("none": a direct Registry call);
\* op, pc: the Registry method and the place in it; state: its local dict;
\* fd: where the file it has open is; sg: what start_generation returned to
\* the tool ("started", or the error of its failure result); seen: what
\* get_status found when it read ("stale_pid" / "stale_nopid": a record with
\* a non-terminal status, with / without a pid, whose worker had exited);
\* quiet: no other Registry call was in progress when this one read the
\* record; sent: the signals cancel_generation has delivered; probes: the
\* liveness probes of its grace loop that found the process running;
\* dead_seen: a probe of the grace loop found it gone; active_only, todo,
\* found: the argument of list_generations, the files its glob has yet to
\* yield and the entries it has appended; stale: the jobs list_generations
\* read as "stale_pid"; listing: the list it returned; cutoff,
\* completed_only: cutoff_time and the argument of veo_cleanup_sessions;
\* index: the video_index of veo_download_video; downloads: the files the
\* tool has fetched so far (the number of a fetch names its file); file: the
\* file the call has fetched or returned (0: none); cmd: the argument list
\* start_generation has built for the worker.
IdleThread ==
  [tool |-> "none", op |-> "none", pc |-> "idle", job |-> "J1",
   state |-> EmptyDict, fd |-> "closed", sg |-> "none", seen |-> "none",
   quiet |-> FALSE, sent |-> {}, probes |-> 0, dead_seen |-> FALSE,
   active_only |-> FALSE, todo |-> {}, found |-> {}, stale |-> {},
   listing |-> << >>, cutoff |-> [sec |-> 0, micro |-> 0],
   completed_only |-> FALSE, index |-> 0, downloads |-> 0, file |-> 0,
   cmd |-> << >>, ret |-> NoRet]

\* The arguments of start_generation (lines 91-109) that reach the worker's
\* command line; "none" stands for None or an empty string, numbers are
\* written as str() prints them.
Requests ==
  [prompt : {"cat"}, model : {"veo-2"}, aspect_ratio : {"16:9"},
   person_generation : {"allow_adult"}, number_of_videos : {"1"},
   duration_seconds : {"8"}, negative_prompt : {"none", "blur"},
   resolution : {"none"}, seed : {"none", "0"}, output_gcs_uri : {"none"},
   enhance_prompt : BOOLEAN, generate_audio : {FALSE}, fps : {"none", "24"},
   download_path : {"none"}]

\* A call that leaves every optional argument out.
PlainRequest ==
  [prompt |-> "cat", model |-> "veo-2", aspect_ratio |-> "16:9",
   person_generation |-> "allow_adult", number_of_videos |-> "1",
   duration_seconds |-> "8", negative_prompt |-> "none",
   resolution |-> "none", seed |-> "none", output_gcs_uri |-> "none",
   enhance_prompt |-> FALSE, generate_audio |-> FALSE, fps |-> "none",
   download_path |-> "none"]

\* The values Config.from_env() can give gemini_api_key, and the one the
\* server runs with where the key plays no part.
Keys == {"key1", "key2"}
ServerKey == "key1"

\* cmd.extend([flag, value]) under "if value" / "if value is not None".
Option(flag, value) == IF value = "none" THEN << >> ELSE <<flag, value>>
\* cmd.append(flag) under "if value".
Switch(flag, value) == IF value THEN <<flag>> ELSE << >>

\* start_generation, lines 154-191: the worker's command line for job j.
Cmd(j, a) ==
  <<"python", "-m", "src.utils.generation_worker",
    "--session-id", j, "--state-dir", "state_dir",
    "--prompt", a.prompt, "--model", a.model,
    "--aspect-ratio", a.aspect_ratio,
    "--person-generation", a.person_generation,
    "--number-of-videos", a.number_of_videos,
    "--duration-seconds", a.duration_seconds>>
  \o Option("--negative-prompt", a.negative_prompt)
  \o Option("--resolution", a.resolution)
  \o Option("--seed", a.seed)
  \o Option("--output-gcs-uri", a.output_gcs_uri)
  \o Switch("--enhance-prompt", a.enhance_prompt)
  \o Switch("--generate-audio", a.generate_audio)
  \o Option("--fps", a.fps)
  \o Option("--download-path", a.download_path)

\* os.environ.copy() with the key added, lines 199-204; only the variable
\* the key is stored in is modelled.
NoEnviron == [GEMINI_API_KEY |-> "none"]
Environ(key) == [NoEnviron EXCEPT !.GEMINI_API_KEY = key]

\* A Popen that puts the key on the command line as well.
LaunchKeyInArgs(cmd, key) ==
  [argv |-> cmd \o <<"--api-key", key>>, environ |-> Environ(key)]

\* subprocess.Popen(cmd, ..., env=env), lines 212-219: what the new process
\* is started with.
Launch(cmd, key) == [argv |-> cmd, environ |-> Environ(key)]

\* argv, environ: what the process was started with.  elapsed: the seconds
\* since poll_until_complete took start_time (line 154).
NoWorker ==
  [pc |-> "boot", phase |-> "generating", state |-> EmptyDict, fd |-> "closed",
   polls |-> 0, hpc |-> "idle", hstate |-> EmptyDict, hfd |-> "closed",
   argv |-> << >>, environ |-> NoEnviron, elapsed |-> 0]

Init ==
  /\ canon = [j \in JobIds |-> NoFile]
  /\ tmpf = [j \in JobIds |-> NoFile]
  /\ proc = [j \in JobIds |-> "unborn"]
  /\ sig = [j \in JobIds |-> FALSE]
  /\ thread = [t \in Threads |-> IdleThread]
  /\ worker = [j \in JobIds |-> NoWorker]
  /\ calls = 0

\* ------------------------------------------------- reading and liveness
\* A _read_state that would take every file that is there for a record.
FoundIfExists(j) == canon[j].k # "none"

\* GenerationManager._read_state: None for a missing or unparseable file.
\* The model returns EmptyDict with found = FALSE for None.
ManagerFound(j) == canon[j].k = "full"
ManagerRead(j) == IF canon[j].k = "full" THEN Aged(canon[j].r) ELSE EmptyDict

\* GenerationWorker._read_state: {} for a missing or unparseable file.
WorkerRead(j) == IF canon[j].k = "full" THEN Aged(canon[j].r) ELSE EmptyDict

\* The worker process of the job is gone.
Gone == {"dead", "zombie", "reused", "struck", "unreadable", "taken"}

\* What the operating system shows at the pid of job j's worker when proc[j]
\* is p: whether a process has the pid, whether it is a zombie, whether
\* psutil can read its command line, whether the command line holds
\* "generation_worker" and the --session-id it holds.
Process(p, j) ==
  [exists |-> p \in {"alive", "zombie", "reused", "struck", "unreadable", "taken"},
   zombie |-> p = "zombie",
   readable |-> p # "unreadable",
   worker_module |-> p \in {"alive", "taken"},
   session |-> IF p = "alive" THEN j ELSE IF p = "taken" THEN "another" ELSE "none"]

\* GenerationManager._is_process_running, lines 60-89, for the process e.
IsRunning(e) ==
  IF ~e.exists THEN FALSE              \* os.kill raises OSError, line 82
  ELSE IF e.zombie THEN FALSE          \* lines 69-75
  ELSE IF ~e.readable THEN TRUE        \* cmdline() raises, lines 80-82
  ELSE e.worker_module                 \* line 77

\* GenerationManager._is_process_running(pid).
is_process_running(pid) ==
  \E j \in DOMAIN proc : PidOf(j) = pid /\ IsRunning(Process(proc[j], j))

\* The job at whose worker's pid os.kill(pid, ...) looks for a process.
Holder(pid) == CHOOSE j \in DOMAIN proc : PidOf(j) = pid

\* ------------------------------------------------ the write protocol
\* open(temp_file, "w"): creates the file or truncates the one that is there.
OpenTmp(j) == tmpf' = [tmpf EXCEPT ![j] = EmptyFile]

\* close() flushes the document to the file the descriptor refers to.
FlushTo(j, fd, rec) ==
  CASE fd = "tmp" ->
         /\ \E c \in Overwrite(tmpf[j], rec) : tmpf' = [tmpf EXCEPT ![j] = c]
         /\ UNCHANGED canon
    [] fd = "canon" ->
         /\ \E c \in Overwrite(canon[j], rec) : canon' = [canon EXCEPT ![j] = c]
         /\ UNCHANGED tmpf
    [] OTHER -> UNCHANGED <<canon, tmpf>>

\* A rename that would go through without its source, taking the target
\* away.
CanReplaceAlways(j) == TRUE

\* temp_file.replace(state_file) succeeds iff the temporary path exists.
CanReplace(j) == tmpf[j].k # "none"
ReplaceFiles(j) ==
  /\ canon' = [canon EXCEPT ![j] = tmpf[j]]
  /\ tmpf' = [tmpf EXCEPT ![j] = NoFile]

\* Every descriptor open on job j's temporary file follows the rename.
ThreadsAfterReplace(j) ==
  [u \in Threads |->
     IF thread[u].job = j
     THEN [thread[u] EXCEPT !.fd = FdAfterReplace(@)]
     ELSE thread[u]]
WorkerAfterReplace(j) ==
  [worker EXCEPT ![j].fd = FdAfterReplace(@), ![j].hfd = FdAfterReplace(@)]

\* ------------------------------------------------------------ the Registry
Reconciled(st) == [st EXCEPT !.status = "failed", !.error = "unexpected"]
Cancelled(st) ==
  [st EXCEPT !.status = "cancelled", !.error = "cancelled_by_user",
     !.updated_at = "now"]

\* get_status, line 254: the liveness probe is made for these records only.
GsProbes(st) == st.pid # 0 /\ st.status \in {"running", "generating", "polling"}
\* line 254 evaluates state["status"] once pid is truthy: KeyError if absent.
GsRaises(st) == st.pid # 0 /\ st.status = "missing"
\* line 257: a dead process is reconciled only if the record has no error.
GsReconciles(st) == st.status # "completed" /\ st.error = "none"

\* get_status, lines 254-262: what it returns for the record st when the
\* liveness probe, if made, says running.
GetStatusResult(st, running) ==
  IF GsProbes(st) /\ ~running /\ GsReconciles(st) THEN Reconciled(st) ELSE st

\* A Registry that would cancel a record in any status.
CancelAnyStatus(st) == st.status \in Statuses

\* cancel_generation, line 301.
CancelAllowed(st) == st.status \in {"running", "generating", "polling", "starting"}

\* veo_generate_video, lines 162-182: what the tool returns once its own
\* get_status call has ended with a result of kind gs ("state", "not_found"
\* or "raised") and record st.  result["pid"] raises KeyError when
\* start_generation returned its failure result, which has no pid.
GenerateReturn(sg, gs, st) ==
  IF gs = "raised" THEN Ret("generate_error", FALSE, "none", "exception")
  ELSE IF sg # "started" THEN Ret("generate_error", FALSE, "none", "keyerror_pid")
  ELSE Ret("generate_ok", TRUE,
           IF gs = "state" /\ st.status # "missing" THEN st.status ELSE "starting",
           "none")

\* veo_download_video, lines 443-451: the entry recorded for index i, the
\* first if there are several.
HasEntry(st, i) == \E n \in DOMAIN st.downloaded : st.downloaded[n].index = i
EntryOf(st, i) ==
  st.downloaded[CHOOSE n \in DOMAIN st.downloaded :
                  /\ st.downloaded[n].index = i
                  /\ \A k \in 1..(n - 1) : st.downloaded[k].index # i]

\* lines 444-446.
AlreadyDownloaded(st, i) == HasEntry(st, i)

\* The thread record once veo_download_video has returned: kind and error
\* say what the result is, its message whether the file was "fetched" or
\* "already" there.
DownloadReturn(th, kind, message, file, error) ==
  [th EXCEPT !.pc = "ret", !.state = EmptyDict, !.fd = "closed", !.seen = "none",
     !.quiet = FALSE, !.file = file, !.ret = Ret(kind, FALSE, message, error)]

\* veo_download_video, lines 421-459: what the tool does with the result of
\* its get_status call, of kind gs and record st.
AfterDownloadStatus(th, gs, st) ==
  IF gs = "raised" THEN DownloadReturn(th, "download_error", "none", 0, "exception")
  ELSE IF gs # "state" \/ st.status # "completed"
  THEN DownloadReturn(th, "download_error", "none", 0, "not_complete")
  ELSE IF st.videos = 0
  THEN DownloadReturn(th, "download_error", "none", 0, "no_videos")
  ELSE IF th.index >= st.videos
  THEN DownloadReturn(th, "download_error", "none", 0, "out_of_range")
  ELSE IF AlreadyDownloaded(st, th.index)
  THEN DownloadReturn(th, "download_ok", "already", EntryOf(st, th.index).file, "none")
  ELSE [th EXCEPT !.op = "download", !.pc = "fetch", !.state = st]

\* The thread record once get_status has ended: the caller has the result
\* (its status and error fields are kept in ret), the local dict is gone.
GetStatusReturn(th, gs, st) ==
  IF th.tool = "download" THEN AfterDownloadStatus(th, gs, st)
  ELSE
  [th EXCEPT !.pc = "ret", !.state = EmptyDict, !.fd = "closed",
     !.ret = IF th.tool = "generate"
             THEN GenerateReturn(th.sg, gs, st)
             ELSE Ret(gs, gs # "raised",
                      IF gs = "state" THEN st.status ELSE "none",
                      IF gs = "state" THEN st.error ELSE "none")]

\* get_status, lines 248-262, from the read on.
Quiet(t) == \A u \in Threads \ {t} : thread[u].pc \in {"idle", "ret"}

Seen(j) ==
  IF ManagerFound(j) /\ IsNonTerminal(ManagerRead(j).status) /\ proc[j] \in Gone
  THEN (IF ManagerRead(j).pid # 0 THEN "stale_pid" ELSE "stale_nopid")
  ELSE "other"

AfterGetStatusRead(t, th0, j) ==
  LET st == ManagerRead(j)
      th == [th0 EXCEPT !.seen = Seen(j), !.quiet = Quiet(t)] IN
  IF ~ManagerFound(j) THEN GetStatusReturn(th, "not_found", EmptyDict)
  ELSE IF GsRaises(st) THEN GetStatusReturn(th, "raised", EmptyDict)
  ELSE IF GsProbes(st) THEN [th EXCEPT !.op = "get_status", !.pc = "check", !.state = st]
  ELSE GetStatusReturn(th, "state", st)

Free(t) == thread[t].pc \in {"idle", "ret"}

\* veo_generate_video -> start_generation, lines 111-151: a fresh job id and
\* the initial record.  Nobody else knows the id before the record exists,
\* so this first write cannot be interleaved with anything.
\* Lines 153-191 build the worker's command line cmd.
start_generation_with(t, j, cmd, initial) ==
  /\ t = "loop"
  /\ Free(t)
  /\ proc[j] = "unborn"
  /\ canon' = [canon EXCEPT ![j] = Full(initial)]
  /\ proc' = [proc EXCEPT ![j] = "none"]
  /\ thread' = [thread EXCEPT ![t] =
       [IdleThread EXCEPT !.tool = "generate", !.op = "start_generation",
          !.pc = "spawn", !.job = j, !.state = Aged(initial),
          !.cmd = cmd]]
  /\ UNCHANGED <<tmpf, sig, worker, calls>>

\* The call with the arguments a.
start_generation_call(t, j, a) ==
  start_generation_with(t, j, Cmd(j, a), InitialState)

\* The call where the command line plays no part and is left out of the
\* state.
start_generation_init(t, j) ==
  start_generation_with(t, j, << >>, InitialState)

\* The call with the request keys in the record it writes.
start_generation_request(t, j) ==
  start_generation_with(t, j, << >>, RequestedState)

\* A start_generation that would record the pid and leave the status.
SpawnedPidOnly(state, pid) == [state EXCEPT !.pid = pid]

\* start_generation, lines 226-227: the dict once the worker is started.
Spawned(state, pid) == [state EXCEPT !.pid = pid, !.status = "running"]

\* start_generation, lines 194-228: Config.from_env() gives the key and
\* subprocess.Popen succeeds.
start_generation_started(t, started) ==
  LET j == thread[t].job IN
  /\ thread[t].op = "start_generation" /\ thread[t].pc = "spawn"
  /\ proc' = [proc EXCEPT ![j] = "alive"]
  /\ worker' = [worker EXCEPT ![j].argv = started.argv,
                              ![j].environ = started.environ]
  /\ thread' = [thread EXCEPT ![t].pc = "open",
       ![t].state = Spawned(@, PidOf(j))]
  /\ UNCHANGED <<canon, tmpf, sig, calls>>

\* The spawn with the key that Config.from_env() gives.
start_generation_popen(t, key) ==
  start_generation_started(t, Launch(thread[t].cmd, key))

\* The spawn where command line and environment play no part and are left
\* out of the state.
start_generation_spawn(t) ==
  start_generation_started(t, [argv |-> << >>, environ |-> NoEnviron])

\* start_generation, lines 239-242: Config, the log files or Popen raised.
start_generation_spawn_fails(t) ==
  /\ thread[t].op = "start_generation" /\ thread[t].pc = "spawn"
  /\ thread' = [thread EXCEPT ![t].op = "start_except", ![t].pc = "open",
       ![t].state = [@ EXCEPT !.status = "failed", !.error = "spawn"]]
  /\ UNCHANGED <<canon, tmpf, proc, sig, worker, calls>>

\* _write_state, line 49: open the temporary file.
write_state_open(t) ==
  LET j == thread[t].job IN
  /\ thread[t].pc = "open"
  /\ OpenTmp(j)
  /\ thread' = [thread EXCEPT ![t].pc = "flush", ![t].fd = "tmp"]
  /\ UNCHANGED <<canon, proc, sig, worker, calls>>

\* _write_state, lines 49-50: json.dump and the close that ends the with block.
write_state_flush(t) ==
  LET j == thread[t].job IN
  /\ thread[t].pc = "flush"
  /\ FlushTo(j, thread[t].fd, thread[t].state)
  /\ thread' = [thread EXCEPT ![t].pc = "replace", ![t].fd = "closed"]
  /\ UNCHANGED <<proc, sig, worker, calls>>

\* The thread record after _write_state returned normally (line 54 done).
AfterWrite(th) ==
  CASE th.op = "start_generation" ->   \* lines 230-237, then the tool, line 162
         [th EXCEPT !.sg = "started", !.op = "get_status", !.pc = "read"]
    [] th.op = "start_except" ->       \* line 244, then the tool, line 162
         [th EXCEPT !.sg = th.state.error, !.op = "get_status", !.pc = "read"]
    [] th.op = "get_status" ->         \* line 262
         GetStatusReturn(th, "state", th.state)
    [] th.op = "update_session_state" ->   \* line 356, then the tool, 518
         DownloadReturn(th, "download_ok", "fetched", th.file, "none")
    [] OTHER ->                        \* cancel_generation, lines 343-347
         [th EXCEPT !.pc = "ret", !.state = EmptyDict,
            !.ret = Ret("cancelled", TRUE, "cancelled", "none")]

\* The thread record after _write_state raised (lines 55-58).
AfterWriteRaised(th) ==
  CASE th.op = "start_generation" ->   \* caught at line 239
         [th EXCEPT !.op = "start_except", !.pc = "open",
            !.state = [@ EXCEPT !.status = "failed", !.error = "enoent"]]
    [] th.op = "start_except" ->       \* leaves start_generation; tool line 178
         [th EXCEPT !.pc = "ret", !.state = EmptyDict,
            !.ret = Ret("generate_error", FALSE, "none", "exception")]
    [] th.op = "get_status" ->
         GetStatusReturn(th, "raised", th.state)
    [] th.op = "update_session_state" ->   \* caught at line 357; tool, 518
         DownloadReturn(th, "download_ok", "fetched", th.file, "none")
    [] OTHER ->
         [th EXCEPT !.pc = "ret", !.state = EmptyDict,
            !.ret = Ret("raised", FALSE, "none", "exception")]

\* _write_state, line 54: the rename.
write_state_replace(t) ==
  LET j == thread[t].job IN
  /\ thread[t].pc = "replace"
  /\ CanReplace(j)
  /\ ReplaceFiles(j)
  /\ thread' = [ThreadsAfterReplace(j) EXCEPT ![t] = AfterWrite(thread[t])]
  /\ worker' = WorkerAfterReplace(j)
  /\ UNCHANGED <<proc, sig, calls>>

\* _write_state, lines 54-58: the temporary file is gone (another writer
\* renamed it): FileNotFoundError, unlink(missing_ok) has nothing to remove.
write_state_replace_fails(t) ==
  LET j == thread[t].job IN
  /\ thread[t].pc = "replace"
  /\ ~CanReplace(j)
  /\ thread' = [thread EXCEPT ![t] = AfterWriteRaised(thread[t])]
  /\ UNCHANGED <<canon, tmpf, proc, sig, worker, calls>>

\* veo_generate_video, line 162: the tool's own get_status, its read.
generate_get_status(t) ==
  /\ thread[t].tool = "generate" /\ thread[t].op = "get_status"
  /\ thread[t].pc = "read"
  /\ thread' = [thread EXCEPT ![t] = AfterGetStatusRead(t, thread[t], thread[t].job)]
  /\ UNCHANGED <<canon, tmpf, proc, sig, worker, calls>>

\* get_status, line 248: a client's call with any job id, its read.
get_status_call(t, j) ==
  /\ t = "pool"
  /\ Free(t)
  /\ calls < MaxCalls
  /\ calls' = calls + 1
  /\ thread' = [thread EXCEPT ![t] =
       AfterGetStatusRead(t, [IdleThread EXCEPT !.op = "get_status", !.job = j], j)]
  /\ UNCHANGED <<canon, tmpf, proc, sig, worker>>

\* The call with the id of a job that has been started.
get_status_read(t, j) == proc[j] # "unborn" /\ get_status_call(t, j)

\* get_status, lines 255-260: the liveness probe.
get_status_check(t) ==
  LET th == thread[t] IN
  /\ th.op = "get_status" /\ th.pc = "check"
  /\ thread' = [thread EXCEPT ![t] =
       IF is_process_running(th.state.pid) \/ ~GsReconciles(th.state)
       THEN GetStatusReturn(th, "state", th.state)
       ELSE [th EXCEPT !.state = Reconciled(th.state), !.pc = "open"]]
  /\ UNCHANGED <<canon, tmpf, proc, sig, worker, calls>>

\* ---------------------------------------------------- list_generations
\* datetime.isoformat() + "Z" (start_generation, line 122) as the string of
\* character codes that list_generations compares: the digit of the second,
\* then ".", the digit of the microsecond, unless the microsecond is 0,
\* then "Z".  The digits stand for the fixed-width fields they end.
IsoFormat(ts) ==
  <<48 + ts.sec>> \o (IF ts.micro = 0 THEN << >> ELSE <<46, 48 + ts.micro>>)
    \o <<90>>

\* Python's str.__lt__: code point by code point, a proper prefix is less.
RECURSIVE StrLess(_, _)
StrLess(a, b) ==
  IF b = << >> THEN FALSE
  ELSE IF a = << >> THEN TRUE
  ELSE IF Head(a) # Head(b) THEN Head(a) < Head(b)
  ELSE StrLess(Tail(a), Tail(b))

\* line 291: x.get("started_at", "").
SortKey(st) == IF HasKey(st, "started_at") THEN IsoFormat(st.started_at) ELSE << >>

\* lines 274-279 and 282: state["status"] is evaluated when pid is truthy,
\* and when active_only is set: KeyError if the record has no status.
ListRaises(st, active_only) ==
  st.status = "missing" /\ (st.pid # 0 \/ active_only)

\* line 280: no error text is set and nothing is written.
ListReconciled(st) == [st EXCEPT !.status = "failed"]

\* lines 282-287.
ListKeeps(st, active_only) ==
  ~active_only \/ st.status \in {"running", "generating", "polling", "starting"}

\* What list_generations appends for job j: the dict st (its status, error
\* and sort key), with the record it was made from and the result of the
\* liveness probe (TRUE when no probe was made).
Entry(j, st, read, running) ==
  [id |-> j, status |-> st.status, error |-> st.error, key |-> SortKey(st),
   read |-> read, running |-> running]

\* line 291: list.sort(key, reverse=True) is stable, and the order of equal
\* keys is the order of the glob, which is any.
Sorted(found) ==
  LET n == Cardinality(found) IN
  {s \in [1..n -> found] :
     /\ \A i, k \in 1..n : i # k => s[i] # s[k]
     /\ \A i, k \in 1..n : i < k => ~StrLess(s[i].key, s[k].key)}

\* The thread record with the file of job j done.
Listed(th, j, st, read, running) ==
  [th EXCEPT !.pc = "scan", !.state = EmptyDict, !.todo = @ \ {j},
     !.found = IF ListKeeps(st, th.active_only)
               THEN @ \cup {Entry(j, st, read, running)} ELSE @]

ListCall(t, tool, active_only) ==
  [IdleThread EXCEPT !.tool = tool, !.op = "list_generations", !.pc = "scan",
     !.active_only = active_only, !.quiet = Quiet(t),
     !.todo = {j \in DOMAIN canon : canon[j].k # "none"}]

\* veo_list_generations / veo_list_sessions, lines 225 and 272 ->
\* list_generations, line 268: the glob.
list_generations_glob(t, active_only) ==
  /\ t = "pool"
  /\ Free(t)
  /\ calls < MaxCalls
  /\ calls' = calls + 1
  /\ thread' = [thread EXCEPT ![t] = ListCall(t, "none", active_only)]
  /\ UNCHANGED <<canon, tmpf, proc, sig, worker>>

\* list_generations, lines 269-279: the next file, its read and the test
\* that decides whether the process is probed.
list_generations_read(t) ==
  LET th == thread[t] IN
  /\ th.op = "list_generations" /\ th.pc = "scan"
  /\ \E j \in th.todo :
       LET st == ManagerRead(j) IN
       thread' = [thread EXCEPT ![t] =
         IF ~ManagerFound(j) THEN [th EXCEPT !.todo = @ \ {j}]
         ELSE IF ListRaises(st, th.active_only)
         THEN [th EXCEPT !.pc = "ret", !.todo = {}, !.found = {},
                 !.ret = Ret("raised", FALSE, "none", "exception")]
         ELSE IF GsProbes(st)
         THEN [th EXCEPT !.pc = "probe", !.job = j, !.state = st,
                 !.stale = IF Seen(j) = "stale_pid" THEN @ \cup {j} ELSE @]
         ELSE Listed(th, j, st, st, TRUE)]
  /\ UNCHANGED <<canon, tmpf, proc, sig, worker, calls>>

\* list_generations, lines 279-287: the liveness probe and the append.
list_generations_check(t) ==
  LET th == thread[t]
      running == is_process_running(th.state.pid) IN
  /\ th.op = "list_generations" /\ th.pc = "probe"
  /\ thread' = [thread EXCEPT ![t] =
       Listed(th, th.job,
              IF running THEN th.state ELSE ListReconciled(th.state),
              th.state, running)]
  /\ UNCHANGED <<canon, tmpf, proc, sig, worker, calls>>

\* list_generations, lines 291-292, for a client's call: sort and return.
list_generations_sort(t) ==
  LET th == thread[t] IN
  /\ th.op = "list_generations" /\ th.pc = "scan" /\ th.todo = {}
  /\ th.tool = "none"
  /\ \E s \in Sorted(th.found) :
       thread' = [thread EXCEPT ![t] =
         [th EXCEPT !.pc = "ret", !.found = {}, !.listing = s,
            !.ret = Ret("list", FALSE, "none", "none")]]
  /\ UNCHANGED <<canon, tmpf, proc, sig, worker, calls>>

\* ------------------------------------------------- veo_cleanup_sessions
\* start_generation, line 111: int(time.time()), the last part of the job
\* id, which line 341 parses back.  The job of the model is started at 0.
SessionTimestamp(j) == 0

\* The clock readings (datetime.now().timestamp(), seconds and microseconds)
\* at which a client calls veo_cleanup_sessions.
NowValues == [sec : {1, SecondsPerDay}, micro : 0..MaxMicro]

\* line 334.
CutoffTime(now, days) ==
  [sec |-> now.sec - days * SecondsPerDay, micro |-> now.micro]

\* line 342: session_timestamp > cutoff_time.
TooRecent(ts, cutoff) == ts > cutoff.sec

\* lines 348-353: the entry is passed over because of its status.
SkipsStatus(e, completed_only) ==
  completed_only /\ e.status \notin {"completed", "failed", "cancelled"}

\* lines 338-353: the entries whose files are removed.
ToRemove(th) ==
  {e.id : e \in {x \in th.found :
      /\ ~TooRecent(SessionTimestamp(x.id), th.cutoff)
      /\ ~SkipsStatus(x, th.completed_only)}}

\* line 348: session["status"] raises KeyError for a record without status.
CleanupRaises(th) ==
  \E e \in th.found :
    /\ ~TooRecent(SessionTimestamp(e.id), th.cutoff)
    /\ th.completed_only /\ e.status = "missing"

\* A descriptor open on the canonical file keeps the file, which no path
\* reaches any more.
FdAfterUnlink(fd) == IF fd = "canon" THEN "orphan" ELSE fd

\* The thread record once veo_cleanup_sessions has returned.
CleanupReturn(th, kind) ==
  [th EXCEPT !.pc = "ret", !.todo = {}, !.found = {}, !.state = EmptyDict,
     !.cutoff = IdleThread.cutoff, !.completed_only = FALSE,
     !.ret = Ret(kind, FALSE, "none", IF kind = "cleanup" THEN "none" ELSE "exception")]

\* veo_cleanup_sessions, lines 329-336: the arguments, cutoff_time, and the
\* glob of the list_generations call it hands to a pool thread.
cleanup_sessions_call(t, days, completed_only, now) ==
  /\ t = "pool"
  /\ Free(t)
  /\ calls < MaxCalls
  /\ calls' = calls + 1
  /\ thread' = [thread EXCEPT ![t] =
       [ListCall(t, "cleanup", FALSE) EXCEPT
          !.cutoff = CutoffTime(now, days), !.completed_only = completed_only]]
  /\ UNCHANGED <<canon, tmpf, proc, sig, worker>>

\* veo_cleanup_sessions, lines 338-366, back on the event loop once the
\* list is there: state_file.unlink() for the entries that are old enough
\* and pass the status test (the log files, which the model does not hold,
\* go in the same round of the loop).
cleanup_sessions_unlink(t) ==
  LET th == thread[t]
      gone == IF CleanupRaises(th) THEN {}
              ELSE {j \in ToRemove(th) : canon[j].k # "none"} IN
  /\ th.op = "list_generations" /\ th.pc = "scan" /\ th.todo = {}
  /\ th.tool = "cleanup"
  /\ Free("loop")
  /\ canon' = [j \in DOMAIN canon |-> IF j \in gone THEN NoFile ELSE canon[j]]
  /\ thread' = [u \in Threads |->
       IF u = t
       THEN CleanupReturn(th, IF CleanupRaises(th) THEN "raised" ELSE "cleanup")
       ELSE IF thread[u].job \in gone
       THEN [thread[u] EXCEPT !.fd = FdAfterUnlink(@)]
       ELSE thread[u]]
  /\ worker' = [j \in DOMAIN worker |->
       IF j \in gone
       THEN [worker[j] EXCEPT !.fd = FdAfterUnlink(@), !.hfd = FdAfterUnlink(@)]
       ELSE worker[j]]
  /\ UNCHANGED <<tmpf, proc, sig, calls>>

\* --------------------------------------------------- veo_download_video
\* veo_download_video, lines 413-419: the tool runs on the event loop without
\* awaiting anything; the read of its get_status call.
download_call(t, j, i) ==
  /\ t = "loop"
  /\ Free(t)
  /\ proc[j] # "unborn"
  /\ thread' = [thread EXCEPT ![t] =
       AfterGetStatusRead(t,
         [IdleThread EXCEPT !.tool = "download", !.op = "get_status", !.job = j,
            !.index = i, !.downloads = thread[t].downloads], j)]
  /\ UNCHANGED <<canon, tmpf, proc, sig, worker, calls>>

\* lines 453-516: the copy or the download has made the file, and the entry
\* is appended to the list taken from the result of get_status.
download_fetch(t) ==
  LET th == thread[t] IN
  /\ th.op = "download" /\ th.pc = "fetch"
  /\ th.downloads < MaxDownloads
  /\ thread' = [thread EXCEPT ![t] =
       [th EXCEPT !.pc = "update", !.downloads = @ + 1, !.file = th.downloads + 1,
          !.state = [@ EXCEPT !.downloaded =
                       Append(@, [index |-> th.index, file |-> th.downloads + 1])]]]
  /\ UNCHANGED <<canon, tmpf, proc, sig, worker, calls>>

\* lines 456-503 and 525-530: no uri, a uri of another form, an error of the
\* download or an exception.
download_fetch_fails(t) ==
  LET th == thread[t] IN
  /\ th.op = "download" /\ th.pc = "fetch"
  /\ thread' = [thread EXCEPT ![t] =
       DownloadReturn(th, "download_error", "none", 0, "fetch")]
  /\ UNCHANGED <<canon, tmpf, proc, sig, worker, calls>>

\* _update_session_state, lines 351-355: the record is read again and gets
\* the list; without a record nothing is written and the tool returns its
\* success all the same.
update_session_state_read(t) ==
  LET th == thread[t]
      j == th.job IN
  /\ th.op = "download" /\ th.pc = "update"
  /\ thread' = [thread EXCEPT ![t] =
       IF ManagerFound(j)
       THEN [th EXCEPT !.op = "update_session_state", !.pc = "open",
               !.state = [ManagerRead(j) EXCEPT !.downloaded = th.state.downloaded,
                          !.updated_at = "now"]]
       ELSE DownloadReturn(th, "download_ok", "fetched", th.file, "none")]
  /\ UNCHANGED <<canon, tmpf, proc, sig, worker, calls>>

\* A process that is gone holds no descriptor and runs no code.
DeadWorker == [NoWorker EXCEPT !.pc = "exited"]

\* cancel_generation, lines 296-310, called with any job id: the read and
\* the status test.
cancel_generation_call(t, j) ==
  LET st == ManagerRead(j)
      th == [IdleThread EXCEPT !.op = "cancel_generation", !.job = j,
               !.seen = Seen(j), !.quiet = Quiet(t)] IN
  /\ t = "pool"
  /\ Free(t)
  /\ calls < MaxCalls
  /\ calls' = calls + 1
  /\ thread' = [thread EXCEPT ![t] =
       IF ~ManagerFound(j)
       THEN [th EXCEPT !.pc = "ret", !.ret = Ret("not_found", TRUE, "none", "not_found")]
       ELSE IF st.status = "missing"
       THEN [th EXCEPT !.pc = "ret", !.ret = Ret("raised", FALSE, "none", "exception")]
       ELSE IF ~CancelAllowed(st)
       THEN [th EXCEPT !.pc = "ret",
               !.ret = Ret("cancel_error", TRUE, st.status, "cannot_cancel")]
       ELSE IF st.pid # 0
       THEN [th EXCEPT !.pc = "term", !.state = st]
       ELSE [th EXCEPT !.pc = "open", !.state = Cancelled(st)]]
  /\ UNCHANGED <<canon, tmpf, proc, sig, worker>>

\* The call with the id of a job that has been started.
cancel_generation_read(t, j) == proc[j] # "unborn" /\ cancel_generation_call(t, j)

\* cancel_generation, line 313: os.kill(pid, SIGTERM).  A worker that has not
\* yet installed its handlers (GenerationWorker.__init__) dies of the signal;
\* for a process that is gone os.kill raises the OSError caught at 334 and
\* the method goes on to line 338.  The signal goes to whatever process has
\* the pid: line 313 is not preceded by any test of what the process is.
cancel_generation_term(t) ==
  LET th == thread[t]
      j == Holder(th.state.pid) IN
  /\ th.op = "cancel_generation" /\ th.pc = "term"
  /\ IF proc[j] = "alive" /\ worker[j].pc = "boot"
     THEN /\ proc' = [proc EXCEPT ![j] = "dead"]
          /\ worker' = [worker EXCEPT ![j] = DeadWorker]
          /\ sig' = [sig EXCEPT ![j] = FALSE]
          /\ thread' = [thread EXCEPT ![t].pc = "wait", ![t].sent = {"TERM"}]
     ELSE IF proc[j] = "alive"
     THEN /\ sig' = [sig EXCEPT ![j] = TRUE]
          /\ thread' = [thread EXCEPT ![t].pc = "wait", ![t].sent = {"TERM"}]
          /\ UNCHANGED <<proc, worker>>
     ELSE IF proc[j] \in {"reused", "struck"}
     THEN /\ proc' = [proc EXCEPT ![j] = "struck"]
          /\ thread' = [thread EXCEPT ![t].pc = "wait", ![t].sent = {"TERM"}]
          /\ UNCHANGED <<sig, worker>>
     ELSE IF Process(proc[j], j).exists   \* a zombie or a process not modelled
     THEN /\ thread' = [thread EXCEPT ![t].pc = "wait", ![t].sent = {"TERM"}]
          /\ UNCHANGED <<proc, sig, worker>>
     ELSE /\ thread' = [thread EXCEPT ![t].pc = "open", ![t].state = Cancelled(th.state)]
          /\ UNCHANGED <<proc, worker, sig>>
  /\ UNCHANGED <<canon, tmpf, calls>>

\* cancel_generation, lines 317-319: a probe of the grace loop finds the
\* process gone, break.
cancel_generation_wait(t) ==
  LET th == thread[t] IN
  /\ th.op = "cancel_generation" /\ th.pc = "wait"
  /\ th.probes < GraceLimit
  /\ ~is_process_running(th.state.pid)
  /\ thread' = [thread EXCEPT ![t].pc = "kill", ![t].dead_seen = TRUE]
  /\ UNCHANGED <<canon, tmpf, proc, sig, worker, calls>>

\* cancel_generation, lines 317-320: a probe of the grace loop finds the
\* process running, sleep(0.1).
cancel_generation_sleep(t) ==
  LET th == thread[t] IN
  /\ th.op = "cancel_generation" /\ th.pc = "wait"
  /\ th.probes < GraceLimit
  /\ is_process_running(th.state.pid)
  /\ thread' = [thread EXCEPT ![t].probes = @ + 1]
  /\ UNCHANGED <<canon, tmpf, proc, sig, worker, calls>>

\* cancel_generation, lines 317-320, taken as one step: this probe and all
\* that remain find the process running.
cancel_generation_sleep_all(t) ==
  LET th == thread[t] IN
  /\ th.op = "cancel_generation" /\ th.pc = "wait"
  /\ th.probes < GraceLimit
  /\ is_process_running(th.state.pid)
  /\ thread' = [thread EXCEPT ![t].probes = GraceLimit]
  /\ UNCHANGED <<canon, tmpf, proc, sig, worker, calls>>

\* cancel_generation, line 317: the loop has made its 50 rounds.
cancel_generation_grace_over(t) ==
  LET th == thread[t] IN
  /\ th.op = "cancel_generation" /\ th.pc = "wait"
  /\ th.probes = GraceLimit
  /\ thread' = [thread EXCEPT ![t].pc = "kill"]
  /\ UNCHANGED <<canon, tmpf, proc, sig, worker, calls>>

\* A Registry that would send SIGKILL whatever the probe after the loop says.
KillAlways(pid) == TRUE

\* cancel_generation, line 323: the probe after the loop.
KillNeeded(pid) == is_process_running(pid)

\* cancel_generation, lines 323-332: the probe after the loop, SIGKILL if the
\* process is still there, the reaping.  SIGKILL cannot be caught and the
\* io buffers of the killed process are lost.
cancel_generation_kill(t) ==
  LET th == thread[t]
      j == Holder(th.state.pid) IN
  /\ th.op = "cancel_generation" /\ th.pc = "kill"
  /\ IF KillNeeded(th.state.pid)
     THEN /\ proc' = [proc EXCEPT ![j] = "dead"]
          /\ worker' = [worker EXCEPT ![j] = DeadWorker]
          /\ sig' = [sig EXCEPT ![j] = FALSE]
          /\ thread' = [thread EXCEPT ![t].pc = "open",
               ![t].state = Cancelled(th.state), ![t].sent = @ \cup {"KILL"},
               ![t].probes = 0, ![t].dead_seen = FALSE]
     ELSE /\ thread' = [thread EXCEPT ![t].pc = "open",
               ![t].state = Cancelled(th.state),
               ![t].probes = 0, ![t].dead_seen = FALSE]
          /\ UNCHANGED <<proc, worker, sig>>
  /\ UNCHANGED <<canon, tmpf, calls>>

\* -------------------------------------------------------------- the worker
\* A generate whose completing update would carry the status alone.
UpdatesStatusOnly(phase, n) ==
  CASE phase = "generating" -> [status |-> "generating", error |-> "none"]
    [] phase = "polling" -> [status |-> "polling"]
    [] phase = "poll_cb" -> [status |-> "polling"]
    [] phase = "cb_failed" -> [status |-> "failed", error |-> "worker"]
    [] phase = "failed" -> [status |-> "failed", error |-> "worker"]
    [] phase = "cb_timeout" -> [status |-> "failed", error |-> "timeout"]
    [] phase = "timeout" -> [status |-> "failed", error |-> "timeout"]
    [] phase = "completed" -> [status |-> "completed"]
    [] OTHER -> << >>

\* The updates GenerationWorker.generate passes to _update_state, by phase
\* (the progress text is not modelled); n is the number of videos returned.
Updates(phase, n) ==
  CASE phase = "generating" -> [status |-> "generating", error |-> "none"]  \* 77
    [] phase = "progress1" -> << >>                                        \* 143
    [] phase = "progress2" -> << >>                                        \* 151
    [] phase = "polling" -> [status |-> "polling"]                         \* 191
    [] phase = "poll_cb" -> [status |-> "polling"]        \* veo_client 223
    [] phase = "cb_failed" -> [status |-> "failed", error |-> "worker"]
                                                    \* veo_client 166, 210
    [] phase = "failed" -> [status |-> "failed", error |-> "worker"]
                                \* 89, 110, 134, 172, 183, 215, 242, 251
    [] phase = "cb_timeout" -> [status |-> "failed", error |-> "timeout"]
                                                        \* veo_client 210
    [] phase = "timeout" -> [status |-> "failed", error |-> "timeout"]  \* 215
    [] phase = "completed" -> [status |-> "completed", videos |-> n]       \* 236
    [] OTHER -> << >>

\* _signal_handler, line 42.
SignalUpdates == [status |-> "cancelled", error |-> "interrupted"]

\* What poll_until_complete does next: the operation is done with videos,
\* done with an error or the time is up (callback, then the failed update),
\* done without videos or an exception (failed), or another round.
PollOutcomes(polls) ==
  {"completed", "failed", "cb_failed"}
    \cup (IF polls < MaxPolls THEN {"poll_cb"} ELSE {})

\* The phase that follows an update in generate; "exit" ends the process.
NextPhases(phase, polls) ==
  CASE phase = "generating" -> {"progress1", "failed"}
    [] phase = "progress1" -> {"progress2"}
    [] phase = "progress2" -> {"polling", "failed"}
    [] phase = "polling" -> PollOutcomes(polls)
    [] phase = "poll_cb" -> PollOutcomes(polls)
    [] phase = "cb_failed" -> {"failed"}
    [] phase = "cb_timeout" -> {"timeout"}
    [] OTHER -> {"exit"}

\* The main flow of the worker runs while the process is alive and no
\* handler is running or due.
MainRuns(j) == proc[j] = "alive" /\ worker[j].hpc = "idle" /\ ~sig[j]

\* main(), lines 257-292: the interpreter starts, the arguments parse, the
\* handlers are installed and generate begins.
worker_boot(j) ==
  /\ MainRuns(j) /\ worker[j].pc = "boot"
  /\ worker' = [worker EXCEPT ![j].pc = "read", ![j].phase = "generating"]
  /\ UNCHANGED <<canon, tmpf, proc, sig, thread, calls>>

\* main(), line 286: argparse rejects the arguments (SystemExit is no
\* Exception), or an import fails: the process ends without any update.
worker_boot_fails(j) ==
  /\ MainRuns(j) /\ worker[j].pc = "boot"
  /\ proc' = [proc EXCEPT ![j] = "dead"]
  /\ worker' = [worker EXCEPT ![j] = DeadWorker]
  /\ UNCHANGED <<canon, tmpf, sig, thread, calls>>

\* _update_state, lines 56-58: read and merge.
update_state_read(j) ==
  /\ MainRuns(j) /\ worker[j].pc = "read"
  /\ \E n \in 1..MaxVideos :
       worker' = [worker EXCEPT ![j].pc = "open",
         ![j].state = WorkerUpdate(WorkerRead(j), Updates(worker[j].phase, n))]
  /\ UNCHANGED <<canon, tmpf, proc, sig, thread, calls>>

\* _update_state, line 63.
update_state_open(j) ==
  /\ MainRuns(j) /\ worker[j].pc = "open"
  /\ OpenTmp(j)
  /\ worker' = [worker EXCEPT ![j].pc = "flush", ![j].fd = "tmp"]
  /\ UNCHANGED <<canon, proc, sig, thread, calls>>

\* _update_state, lines 63-64.
update_state_flush(j) ==
  /\ MainRuns(j) /\ worker[j].pc = "flush"
  /\ FlushTo(j, worker[j].fd, worker[j].state)
  /\ worker' = [worker EXCEPT ![j].pc = "replace", ![j].fd = "closed"]
  /\ UNCHANGED <<proc, sig, thread, calls>>

\* The worker record once _update_state has returned: generate goes on.
AfterUpdate(w, next) ==
  IF next = "exit"
  THEN [w EXCEPT !.pc = "exit"]
  ELSE [w EXCEPT !.pc = "read", !.phase = next,
          !.polls = IF next = "poll_cb" THEN w.polls + 1 ELSE w.polls]

\* _update_state, line 67: the rename.
update_state_replace(j) ==
  /\ MainRuns(j) /\ worker[j].pc = "replace"
  /\ CanReplace(j)
  /\ ReplaceFiles(j)
  /\ \E next \in NextPhases(worker[j].phase, worker[j].polls) :
       worker' = [WorkerAfterReplace(j) EXCEPT ![j] = AfterUpdate(worker[j], next)]
  /\ thread' = ThreadsAfterReplace(j)
  /\ UNCHANGED <<proc, sig, calls>>

\* _update_state, lines 68-71: the rename raised, the error is logged and
\* the update is dropped; generate goes on as if it had been made.
update_state_replace_fails(j) ==
  /\ MainRuns(j) /\ worker[j].pc = "replace"
  /\ ~CanReplace(j)
  /\ \E next \in NextPhases(worker[j].phase, worker[j].polls) :
       worker' = [worker EXCEPT ![j] = AfterUpdate(worker[j], next)]
  /\ UNCHANGED <<canon, tmpf, proc, sig, thread, calls>>

\* generate returned (or sys.exit(1) at line 253): the process ends.
worker_exit(j) ==
  /\ MainRuns(j) /\ worker[j].pc = "exit"
  /\ proc' = [proc EXCEPT ![j] = "dead"]
  /\ worker' = [worker EXCEPT ![j] = DeadWorker]
  /\ UNCHANGED <<canon, tmpf, sig, thread, calls>>

\* _signal_handler, lines 41-42, up to the read of its _update_state.  The
\* handler runs in the main thread in place of whatever generate was doing.
signal_handler_read(j) ==
  /\ proc[j] = "alive" /\ sig[j] /\ worker[j].hpc = "idle"
  /\ worker[j].pc # "boot"
  /\ sig' = [sig EXCEPT ![j] = FALSE]
  /\ worker' = [worker EXCEPT ![j].hpc = "open",
       ![j].hstate = WorkerUpdate(WorkerRead(j), SignalUpdates)]
  /\ UNCHANGED <<canon, tmpf, proc, thread, calls>>

signal_handler_open(j) ==
  /\ proc[j] = "alive" /\ worker[j].hpc = "open"
  /\ OpenTmp(j)
  /\ worker' = [worker EXCEPT ![j].hpc = "flush", ![j].hfd = "tmp"]
  /\ UNCHANGED <<canon, proc, sig, thread, calls>>

signal_handler_flush(j) ==
  /\ proc[j] = "alive" /\ worker[j].hpc = "flush"
  /\ FlushTo(j, worker[j].hfd, worker[j].hstate)
  /\ worker' = [worker EXCEPT ![j].hpc = "replace", ![j].hfd = "closed"]
  /\ UNCHANGED <<proc, sig, thread, calls>>

signal_handler_replace(j) ==
  /\ proc[j] = "alive" /\ worker[j].hpc = "replace"
  /\ CanReplace(j)
  /\ ReplaceFiles(j)
  /\ worker' = [WorkerAfterReplace(j) EXCEPT ![j].hpc = "exit"]
  /\ thread' = ThreadsAfterReplace(j)
  /\ UNCHANGED <<proc, sig, calls>>

signal_handler_replace_fails(j) ==
  /\ proc[j] = "alive" /\ worker[j].hpc = "replace"
  /\ ~CanReplace(j)
  /\ worker' = [worker EXCEPT ![j].hpc = "exit"]
  /\ UNCHANGED <<canon, tmpf, proc, sig, thread, calls>>

\* What the file behind descriptor fd holds after SystemExit has unwound the
\* with block of an interrupted _update_state: the close flushes what
\* json.dump had put in the buffer by then, which is nothing, a part of the
\* document or all of it.
ExitFlush(j, fd, rec) ==
  CASE fd = "tmp" ->
         /\ \E c \in {tmpf[j], TornFile} \cup Overwrite(tmpf[j], rec) :
              tmpf' = [tmpf EXCEPT ![j] = c]
         /\ UNCHANGED canon
    [] fd = "canon" ->
         /\ \E c \in {canon[j], TornFile} \cup Overwrite(canon[j], rec) :
              canon' = [canon EXCEPT ![j] = c]
         /\ UNCHANGED tmpf
    [] OTHER -> UNCHANGED <<canon, tmpf>>

\* _signal_handler, line 43: sys.exit(0).
signal_handler_exit(j) ==
  /\ proc[j] = "alive" /\ worker[j].hpc = "exit"
  /\ ExitFlush(j, worker[j].fd, worker[j].state)
  /\ proc' = [proc EXCEPT ![j] = "dead"]
  /\ worker' = [worker EXCEPT ![j] = DeadWorker]
  /\ UNCHANGED <<sig, thread, calls>>

\* ------------------------------------------------------- the environment
\* The worker is killed from outside (SIGKILL, the OOM killer).
kill_out_of_band(j) ==
  /\ proc[j] = "alive"
  /\ proc' = [proc EXCEPT ![j] = "dead"]
  /\ worker' = [worker EXCEPT ![j] = DeadWorker]
  /\ sig' = [sig EXCEPT ![j] = FALSE]
  /\ UNCHANGED <<canon, tmpf, thread, calls>>

\* The system gives the pid of the worker that is gone to a new process.
pid_reused(j) ==
  /\ proc[j] = "dead"
  /\ proc' = [proc EXCEPT ![j] = "reused"]
  /\ UNCHANGED <<canon, tmpf, sig, thread, worker, calls>>

\* Somebody else sends the worker SIGTERM or SIGINT.
term_out_of_band(j) ==
  /\ proc[j] = "alive" /\ worker[j].pc # "boot"
  /\ worker[j].hpc = "idle" /\ ~sig[j]
  /\ sig' = [sig EXCEPT ![j] = TRUE]
  /\ UNCHANGED <<canon, tmpf, proc, thread, worker, calls>>

\* ---------------------------------------------------------- specification
Next ==
  \/ \E t \in Threads, j \in JobIds : start_generation_init(t, j)
  \/ \E t \in Threads : start_generation_spawn(t)
  \/ \E t \in Threads : start_generation_spawn_fails(t)
  \/ \E t \in Threads : write_state_open(t)
  \/ \E t \in Threads : write_state_flush(t)
  \/ \E t \in Threads : write_state_replace(t)
  \/ \E t \in Threads : write_state_replace_fails(t)
  \/ \E t \in Threads : generate_get_status(t)
  \/ \E t \in Threads, j \in JobIds : get_status_read(t, j)
  \/ \E t \in Threads : get_status_check(t)
  \/ \E t \in Threads, j \in JobIds : cancel_generation_read(t, j)
  \/ \E t \in Threads : cancel_generation_term(t)
  \/ \E t \in Threads : cancel_generation_wait(t)
  \/ \E t \in Threads : cancel_generation_sleep_all(t)
  \/ \E t \in Threads : cancel_generation_grace_over(t)
  \/ \E t \in Threads : cancel_generation_kill(t)
  \/ \E t \in Threads, a \in BOOLEAN : list_generations_glob(t, a)
  \/ \E t \in Threads : list_generations_read(t)
  \/ \E t \in Threads : list_generations_check(t)
  \/ \E t \in Threads : list_generations_sort(t)
  \/ \E j \in JobIds : worker_boot(j)
  \/ \E j \in JobIds : worker_boot_fails(j)
  \/ \E j \in JobIds : update_state_read(j)
  \/ \E j \in JobIds : update_state_open(j)
  \/ \E j \in JobIds : update_state_flush(j)
  \/ \E j \in JobIds : update_state_replace(j)
  \/ \E j \in JobIds : update_state_replace_fails(j)
  \/ \E j \in JobIds : worker_exit(j)
  \/ \E j \in JobIds : signal_handler_read(j)
  \/ \E j \in JobIds : signal_handler_open(j)
  \/ \E j \in JobIds : signal_handler_flush(j)
  \/ \E j \in JobIds : signal_handler_replace(j)
  \/ \E j \in JobIds : signal_handler_replace_fails(j)
  \/ \E j \in JobIds : signal_handler_exit(j)
  \/ \E j \in JobIds : kill_out_of_band(j)

Spec == Init /\ [][Next]_vars

\* The same program in an environment that also sends the worker
\* termination signals of its own.
NextSignals ==
  \/ Next
  \/ \E j \in JobIds : term_out_of_band(j)

SpecSignals == Init /\ [][NextSignals]_vars

\* The same program on a system that reuses the pids of processes that are
\* gone.
NextReuse ==
  \/ Next
  \/ \E j \in JobIds : pid_reused(j)

SpecReuse == Init /\ [][NextReuse]_vars

\* The program with the tool that removes records.  A client's own
\* list_generations call is left to Spec and the downloads to SpecDownload:
\* with one client call per behaviour neither meets a cleanup.
NextTools ==
  \/ \E t \in Threads, j \in JobIds : start_generation_init(t, j)
  \/ \E t \in Threads : start_generation_spawn(t)
  \/ \E t \in Threads : start_generation_spawn_fails(t)
  \/ \E t \in Threads : write_state_open(t)
  \/ \E t \in Threads : write_state_flush(t)
  \/ \E t \in Threads : write_state_replace(t)
  \/ \E t \in Threads : write_state_replace_fails(t)
  \/ \E t \in Threads : generate_get_status(t)
  \/ \E t \in Threads, j \in JobIds : get_status_read(t, j)
  \/ \E t \in Threads : get_status_check(t)
  \/ \E t \in Threads, j \in JobIds : cancel_generation_read(t, j)
  \/ \E t \in Threads : cancel_generation_term(t)
  \/ \E t \in Threads : cancel_generation_wait(t)
  \/ \E t \in Threads : cancel_generation_sleep_all(t)
  \/ \E t \in Threads : cancel_generation_grace_over(t)
  \/ \E t \in Threads : cancel_generation_kill(t)
  \/ \E t \in Threads, d \in 0..MaxDays, c \in BOOLEAN, now \in NowValues :
       cleanup_sessions_call(t, d, c, now)
  \/ \E t \in Threads : list_generations_read(t)
  \/ \E t \in Threads : list_generations_check(t)
  \/ \E t \in Threads : cleanup_sessions_unlink(t)
  \/ \E j \in JobIds : worker_boot(j)
  \/ \E j \in JobIds : worker_boot_fails(j)
  \/ \E j \in JobIds : update_state_read(j)
  \/ \E j \in JobIds : update_state_open(j)
  \/ \E j \in JobIds : update_state_flush(j)
  \/ \E j \in JobIds : update_state_replace(j)
  \/ \E j \in JobIds : update_state_replace_fails(j)
  \/ \E j \in JobIds : worker_exit(j)
  \/ \E j \in JobIds : signal_handler_read(j)
  \/ \E j \in JobIds : signal_handler_open(j)
  \/ \E j \in JobIds : signal_handler_flush(j)
  \/ \E j \in JobIds : signal_handler_replace(j)
  \/ \E j \in JobIds : signal_handler_replace_fails(j)
  \/ \E j \in JobIds : signal_handler_exit(j)
  \/ \E j \in JobIds : kill_out_of_band(j)

SpecTools == Init /\ [][NextTools]_vars

\* One job, the status reads and the cancellation of its clients, and the
\* downloads of its artifacts.
NextDownload ==
  \/ \E t \in Threads, j \in JobIds : start_generation_init(t, j)
  \/ \E t \in Threads : start_generation_spawn(t)
  \/ \E t \in Threads : start_generation_spawn_fails(t)
  \/ \E t \in Threads : write_state_open(t)
  \/ \E t \in Threads : write_state_flush(t)
  \/ \E t \in Threads : write_state_replace(t)
  \/ \E t \in Threads : write_state_replace_fails(t)
  \/ \E t \in Threads : generate_get_status(t)
  \/ \E t \in Threads, j \in JobIds : get_status_read(t, j)
  \/ \E t \in Threads : get_status_check(t)
  \/ \E t \in Threads, j \in JobIds : cancel_generation_read(t, j)
  \/ \E t \in Threads : cancel_generation_term(t)
  \/ \E t \in Threads : cancel_generation_wait(t)
  \/ \E t \in Threads : cancel_generation_sleep_all(t)
  \/ \E t \in Threads : cancel_generation_grace_over(t)
  \/ \E t \in Threads : cancel_generation_kill(t)
  \/ \E t \in Threads, j \in JobIds, i \in 0..(MaxVideos - 1) :
       download_call(t, j, i)
  \/ \E t \in Threads : download_fetch(t)
  \/ \E t \in Threads : download_fetch_fails(t)
  \/ \E t \in Threads : update_session_state_read(t)
  \/ \E j \in JobIds : worker_boot(j)
  \/ \E j \in JobIds : worker_boot_fails(j)
  \/ \E j \in JobIds : update_state_read(j)
  \/ \E j \in JobIds : update_state_open(j)
  \/ \E j \in JobIds : update_state_flush(j)
  \/ \E j \in JobIds : update_state_replace(j)
  \/ \E j \in JobIds : update_state_replace_fails(j)
  \/ \E j \in JobIds : worker_exit(j)
  \/ \E j \in JobIds : signal_handler_read(j)
  \/ \E j \in JobIds : signal_handler_open(j)
  \/ \E j \in JobIds : signal_handler_flush(j)
  \/ \E j \in JobIds : signal_handler_replace(j)
  \/ \E j \in JobIds : signal_handler_replace_fails(j)
  \/ \E j \in JobIds : signal_handler_exit(j)
  \/ \E j \in JobIds : kill_out_of_band(j)

SpecDownload == Init /\ [][NextDownload]_vars

\* A state directory with the records of several jobs, started one after the
\* other, each with its worker running or gone, and one list_generations
\* call.  A record is drawn with the state of its process and its worker;
\* the job whose record is still the initial one is the one started last.
Times == [sec : 0..MaxSec, micro : 0..MaxMicro]
TimeLess(a, b) == a.sec < b.sec \/ (a.sec = b.sec /\ a.micro < b.micro)

Stamped(st, ts) ==
  [k \in DOMAIN st \cup {"started_at"} |->
     IF k = "started_at" THEN ts ELSE st[k]]

WorkerAt(phase) == [NoWorker EXCEPT !.pc = "read", !.phase = phase]

\* The worker record w of job j with what start_generation started it with.
Started(j, w) ==
  [w EXCEPT !.argv = Launch(Cmd(j, PlainRequest), ServerKey).argv,
            !.environ = Launch(Cmd(j, PlainRequest), ServerKey).environ]

Stored(j) ==
  LET running == [InitialState EXCEPT !.status = "running", !.pid = PidOf(j)]
      polling == WorkerUpdate(running, [status |-> "polling"]) IN
  { [r |-> InitialState, p |-> "none", w |-> NoWorker],
    [r |-> running, p |-> "alive", w |-> Started(j, NoWorker)],
    [r |-> running, p |-> "dead", w |-> DeadWorker],
    [r |-> polling, p |-> "alive", w |-> Started(j, WorkerAt("completed"))],
    [r |-> polling, p |-> "dead", w |-> DeadWorker],
    [r |-> WorkerUpdate(running, [status |-> "completed", videos |-> 1]),
     p |-> "dead", w |-> DeadWorker],
    [r |-> WorkerUpdate(running, [status |-> "failed", error |-> "worker"]),
     p |-> "dead", w |-> DeadWorker],
    [r |-> Cancelled(running), p |-> "dead", w |-> DeadWorker] }

InitList ==
  \E store \in [ListJobs -> UNION {Stored(j) : j \in ListJobs}],
     at \in [ListJobs -> Times] :
    /\ \A j \in ListJobs : store[j] \in Stored(j)
    /\ \A j, k \in ListJobs : j # k => at[j] # at[k]
    /\ \A j, k \in ListJobs :
         (j # k /\ store[j].p = "none") => TimeLess(at[k], at[j])
    /\ canon = [j \in ListJobs |-> Full(Stamped(store[j].r, at[j]))]
    /\ tmpf = [j \in ListJobs |-> NoFile]
    /\ proc = [j \in ListJobs |-> store[j].p]
    /\ sig = [j \in ListJobs |-> FALSE]
    /\ thread = [t \in Threads |-> IdleThread]
    /\ worker = [j \in ListJobs |-> store[j].w]
    /\ calls = 0

NextList ==
  \/ \E t \in Threads, a \in BOOLEAN : list_generations_glob(t, a)
  \/ \E t \in Threads : list_generations_read(t)
  \/ \E t \in Threads : list_generations_check(t)
  \/ \E t \in Threads : list_generations_sort(t)

SpecList == InitList /\ [][NextList]_vars

\* One job from its start to its cancellation, with the grace loop of
\* cancel_generation taken probe by probe.
NextGrace ==
  \/ \E t \in Threads, j \in JobIds : start_generation_init(t, j)
  \/ \E t \in Threads : start_generation_spawn(t)
  \/ \E t \in Threads : start_generation_spawn_fails(t)
  \/ \E t \in Threads : write_state_open(t)
  \/ \E t \in Threads : write_state_flush(t)
  \/ \E t \in Threads : write_state_replace(t)
  \/ \E t \in Threads : write_state_replace_fails(t)
  \/ \E t \in Threads : generate_get_status(t)
  \/ \E t \in Threads : get_status_check(t)
  \/ \E t \in Threads, j \in JobIds : cancel_generation_read(t, j)
  \/ \E t \in Threads : cancel_generation_term(t)
  \/ \E t \in Threads : cancel_generation_wait(t)
  \/ \E t \in Threads : cancel_generation_sleep(t)
  \/ \E t \in Threads : cancel_generation_grace_over(t)
  \/ \E t \in Threads : cancel_generation_kill(t)
  \/ \E j \in JobIds : worker_boot(j)
  \/ \E j \in JobIds : worker_boot_fails(j)
  \/ \E j \in JobIds : update_state_read(j)
  \/ \E j \in JobIds : update_state_open(j)
  \/ \E j \in JobIds : update_state_flush(j)
  \/ \E j \in JobIds : update_state_replace(j)
  \/ \E j \in JobIds : update_state_replace_fails(j)
  \/ \E j \in JobIds : worker_exit(j)
  \/ \E j \in JobIds : signal_handler_read(j)
  \/ \E j \in JobIds : signal_handler_open(j)
  \/ \E j \in JobIds : signal_handler_flush(j)
  \/ \E j \in JobIds : signal_handler_replace(j)
  \/ \E j \in JobIds : signal_handler_replace_fails(j)
  \/ \E j \in JobIds : signal_handler_exit(j)

SpecGrace == Init /\ [][NextGrace]_vars

\* ------------------------------------------------------------------ claims
\* A call of thread t ends in this step.
Returned(t) ==
  /\ thread'[t].pc = "ret"
  /\ thread[t].pc # "ret" \/ calls' # calls

Persisted(j) == canon[j].k = "full"
Status(j) == canon[j].r.status

\* C1: if a job's worker has exited and its persisted record still has a
\* non-terminal status, the next get_status call for the job (made while no
\* other Registry call is in progress) leaves the persisted record in a
\* terminal status.
C1_NextGetStatusReconciles ==
  [][\A t \in Threads :
       (Returned(t) /\ thread'[t].op = "get_status" /\ thread'[t].quiet
          /\ thread'[t].seen \in {"stale_pid", "stale_nopid"})
       => (canon'[thread'[t].job].k = "full"
             /\ IsTerminal(canon'[thread'[t].job].r.status))]_vars

\* C2: get_status (made while no other Registry call is in progress) on a
\* record with a non-terminal status and a pid whose process is not alive
\* returns status failed with the error 'Generation
\* process terminated unexpectedly', and that failed record is the persisted
\* one when get_status returns.
C2_DeadProcessReturnsFailed ==
  [][\A t \in Threads :
       (Returned(t) /\ thread'[t].op = "get_status" /\ thread'[t].tool = "none"
          /\ thread'[t].quiet /\ thread'[t].seen = "stale_pid")
       => (/\ thread'[t].ret.kind = "state"
           /\ thread'[t].ret.status = "failed"
           /\ thread'[t].ret.error = "unexpected"
           /\ canon'[thread'[t].job].k = "full"
           /\ canon'[thread'[t].job].r.status = "failed"
           /\ canon'[thread'[t].job].r.error = "unexpected")]_vars

\* C3: with the Registry's start_generation and the job's worker writing the
\* record concurrently, a read of the canonical file at any moment finds a
\* complete record (calls = 0: no other Registry call has been made).
C3_ReadsSeeCompleteRecords ==
  \A j \in JobIds : calls = 0 => canon[j].k \in {"none", "full"}

\* C4: a writer that dies after writing its temporary file and before the
\* rename leaves the canonical file holding a complete record.
C4_CrashKeepsCommittedRecord ==
  [][\A j \in JobIds :
       (proc[j] = "alive" /\ proc'[j] = "dead"
          /\ worker[j].pc = "replace" /\ worker[j].hpc = "idle")
       => canon'[j].k = "full"]_vars

\* C5: once the persisted status is terminal, no write makes it non-terminal.
C5_TerminalNeverRegresses ==
  [][\A j \in JobIds :
       (Persisted(j) /\ IsTerminal(Status(j)) /\ canon'[j].k = "full")
       => ~IsNonTerminal(canon'[j].r.status)]_vars

\* C6: a persisted pid is never changed or cleared while the status is
\* non-terminal.
C6_PidNeverCleared ==
  [][\A j \in JobIds :
       (Persisted(j) /\ canon[j].r.pid # 0 /\ canon'[j].k = "full"
          /\ IsNonTerminal(canon'[j].r.status))
       => canon'[j].r.pid = canon[j].r.pid]_vars

\* C7: the persisted artifact list changes only from empty to non-empty, in
\* the write that sets the status to completed.
C7_VideosSetOnceOnCompletion ==
  [][\A j \in JobIds :
       (Persisted(j) /\ canon'[j].k = "full"
          /\ canon'[j].r.videos # canon[j].r.videos)
       => (canon[j].r.videos = 0 /\ canon'[j].r.status = "completed"
             /\ Status(j) # "completed")]_vars

\* C8: when spawning the worker fails, the start operation returns the job
\* id, status failed and a non-empty error to its caller.
C8_SpawnFailureReturned ==
  \A t \in Threads :
    (thread[t].tool = "generate" /\ thread[t].pc = "ret" /\ thread[t].sg = "spawn")
    => (thread[t].ret.session /\ thread[t].ret.status = "failed"
          /\ thread[t].ret.error # "none")

\* C9: cancel_generation on a record whose status is completed, failed or
\* cancelled returns an error naming that status, signals no process and
\* leaves the files as they are.
C9_CancelTerminalChangesNothing ==
  [][\A t \in Threads, j \in JobIds :
       (/\ calls' # calls /\ thread'[t].op = "cancel_generation"
        /\ thread'[t].job = j /\ Persisted(j) /\ IsTerminal(Status(j)))
       => (/\ thread'[t].pc = "ret"
           /\ thread'[t].ret.kind = "cancel_error"
           /\ thread'[t].ret.status = Status(j)
           /\ canon' = canon /\ tmpf' = tmpf
           /\ sig' = sig /\ proc' = proc /\ worker' = worker)]_vars

C9_Witness ==
  \E t \in Threads :
    /\ thread[t].pc = "ret" /\ thread[t].ret.kind = "cancel_error"
    /\ thread[t].ret.status = "completed"
    /\ Persisted(thread[t].job) /\ Status(thread[t].job) = "completed"

\* C10: cancel_generation (made while no other Registry call is in progress)
\* returns success only once the worker is no longer
\* alive, and the persisted record then has status cancelled and the error
\* 'Cancelled by user'.
C10_CancelReturnsAfterWorkerGone ==
  [][\A t \in Threads :
       (Returned(t) /\ thread'[t].ret.kind = "cancelled" /\ thread'[t].quiet)
       => (/\ proc'[thread'[t].job] # "alive"
           /\ canon'[thread'[t].job].k = "full"
           /\ canon'[thread'[t].job].r.status = "cancelled"
           /\ canon'[thread'[t].job].r.error = "cancelled_by_user")]_vars

\* C11: cancel_generation sends SIGKILL only after it has sent SIGTERM and
\* all 50 probes of the grace loop found the process running; once a probe
\* of the loop has found the process gone, no SIGKILL is sent.
C11_KillOnlyAfterGrace ==
  [][\A t \in Threads :
       ("KILL" \in thread'[t].sent /\ "KILL" \notin thread[t].sent)
       => (/\ "TERM" \in thread[t].sent
           /\ thread[t].probes = GraceLimit
           /\ ~thread[t].dead_seen)]_vars

C11_Witness ==
  \E t \in Threads :
    /\ thread[t].op = "cancel_generation" /\ thread[t].sent = {"TERM", "KILL"}
    /\ proc[thread[t].job] = "dead"

\* C12: cancel_generation (made while no other Registry call is in progress)
\* on a record with a non-terminal status and a pid whose worker is gone
\* raises no error, delivers no signal to any process and ends with the
\* persisted record cancelled.
C12_CancelGoneProcessIsNoOp ==
  [][\A t \in Threads :
       (Returned(t) /\ thread'[t].op = "cancel_generation"
          /\ thread'[t].quiet /\ thread'[t].seen = "stale_pid")
       => (/\ thread'[t].ret.kind = "cancelled"
           /\ thread'[t].sent = {}
           /\ canon'[thread'[t].job].k = "full"
           /\ canon'[thread'[t].job].r.status = "cancelled")]_vars

\* The entries a list_generations call has appended or returned.
Entries(t) ==
  thread[t].found \cup {thread[t].listing[i] : i \in DOMAIN thread[t].listing}

\* C14: the status and the error list_generations reports for a job are
\* those get_status returns for the same record and the same answer of the
\* liveness probe.
C14_ListReportsAsGetStatus ==
  \A t \in Threads : \A e \in Entries(t) :
    /\ e.status = GetStatusResult(e.read, e.running).status
    /\ e.error = GetStatusResult(e.read, e.running).error

\* C15: when list_generations (made while no other Registry call is in
\* progress) returns, every record it read with a pid, a non-terminal status
\* and its worker gone is persisted with status failed.
C15_ListPersistsFailed ==
  [][\A t \in Threads :
       (Returned(t) /\ thread'[t].op = "list_generations"
          /\ thread'[t].ret.kind = "list" /\ thread'[t].quiet)
       => \A j \in thread'[t].stale :
            canon'[j].k = "full" /\ canon'[j].r.status = "failed"]_vars

\* The status get_status would return for job j now.
StatusNow(j) ==
  GetStatusResult(canon[j].r, is_process_running(canon[j].r.pid)).status

\* C13: list_generations(active_only=True) returns the jobs whose status is
\* starting, running, generating or polling, all of them and no other, the
\* job started last first.
C13_ActiveListNewestFirst ==
  \A t \in Threads :
    (thread[t].pc = "ret" /\ thread[t].ret.kind = "list" /\ thread[t].active_only)
    => LET l == thread[t].listing IN
       /\ {l[i].id : i \in DOMAIN l}
            = {j \in DOMAIN canon : Persisted(j) /\ IsNonTerminal(StatusNow(j))}
       /\ \A i, k \in DOMAIN l :
            i < k => TimeLess(canon[l[k].id].r.started_at,
                              canon[l[i].id].r.started_at)

\* The cleanup call of thread t removes the record of job j in this step.
Removes(t, j) ==
  /\ thread[t].tool = "cleanup" /\ Returned(t)
  /\ canon[j].k # "none" /\ canon'[j].k = "none"

\* C16: veo_cleanup_sessions with completed_only set removes a record only
\* if the timestamp in the job id is more than older_than_days days before
\* the call and the status of the job is terminal; the record of a job in a
\* non-terminal status whose worker is alive is not removed.
C16_CleanupOnlyOldTerminal ==
  [][\A t \in Threads, j \in JobIds :
       (Removes(t, j) /\ thread[t].completed_only)
       => (/\ TimeLess([sec |-> SessionTimestamp(j), micro |-> 0], thread[t].cutoff)
           /\ Persisted(j) /\ IsTerminal(StatusNow(j))
           /\ ~(IsNonTerminal(Status(j)) /\ proc[j] = "alive"))]_vars

\* C17: veo_cleanup_sessions, whatever its arguments, does not remove the
\* record of a job whose status is not terminal.
C17_CleanupKeepsNonTerminal ==
  [][\A t \in Threads, j \in JobIds :
       Removes(t, j) => (Persisted(j) /\ IsTerminal(StatusNow(j)))]_vars

C19_DownloadIdempotent ==
  [][\A t \in Threads, j \in JobIds :
       (/\ Free(t) /\ thread'[t] # thread[t]
        /\ thread'[t].tool = "download" /\ thread'[t].job = j
        /\ Persisted(j) /\ HasEntry(canon[j].r, thread'[t].index))
       => (/\ thread'[t].pc = "ret"
           /\ thread'[t].ret.kind = "download_ok"
           /\ thread'[t].file = EntryOf(canon[j].r, thread'[t].index).file
           /\ canon' = canon /\ tmpf' = tmpf)]_vars

\* The list a is the beginning of the list b.
IsPrefix(a, b) ==
  Len(a) <= Len(b) /\ \A n \in DOMAIN a : a[n] = b[n]

\* C20: the list of downloads of a persisted record only grows at its end:
\* no write removes or alters an entry it holds.
C20_DownloadsAppendOnly ==
  [][\A j \in JobIds :
       (Persisted(j) /\ canon'[j].k = "full")
       => IsPrefix(canon[j].r.downloaded, canon'[j].r.downloaded)]_vars

\* C21: every write of a job's record stores an updated_at no older than the
\* write: whenever the content of the canonical file changes to a record
\* (initial record, post-spawn write, spawn-failure write, reconciliation,
\* cancel, download bookkeeping, the worker's updates), the updated_at of
\* that record has been set from the clock for this write.
C21_WritesRefreshUpdatedAt ==
  [][\A j \in JobIds :
       (canon'[j] # canon[j] /\ canon'[j].k = "full")
       => canon'[j].r.updated_at = "now"]_vars

\* One job whose record is created with its request keys, the tool's own
\* get_status after the start, and the job's worker.
NextRequest ==
  \/ \E t \in Threads, j \in JobIds : start_generation_request(t, j)
  \/ \E t \in Threads : start_generation_spawn(t)
  \/ \E t \in Threads : start_generation_spawn_fails(t)
  \/ \E t \in Threads : write_state_open(t)
  \/ \E t \in Threads : write_state_flush(t)
  \/ \E t \in Threads : write_state_replace(t)
  \/ \E t \in Threads : write_state_replace_fails(t)
  \/ \E t \in Threads : generate_get_status(t)
  \/ \E t \in Threads : get_status_check(t)
  \/ \E j \in JobIds : worker_boot(j)
  \/ \E j \in JobIds : worker_boot_fails(j)
  \/ \E j \in JobIds : update_state_read(j)
  \/ \E j \in JobIds : update_state_open(j)
  \/ \E j \in JobIds : update_state_flush(j)
  \/ \E j \in JobIds : update_state_replace(j)
  \/ \E j \in JobIds : update_state_replace_fails(j)
  \/ \E j \in JobIds : worker_exit(j)

SpecRequest == Init /\ [][NextRequest]_vars

\* C22: in every reachable state in which a job's record exists, the request
\* parameters (prompt, model, number_of_videos, generation_config) are in it
\* with the values they had at creation.
C22_RequestParametersKept ==
  \A j \in JobIds :
    Persisted(j) => HasKey(canon[j].r, "request") /\ canon[j].r.request = "given"

\* One start_generation call: any arguments, any key in the server's
\* configuration, the tool's own get_status after it.
NextLaunch ==
  \/ \E t \in Threads, j \in JobIds, a \in Requests : start_generation_call(t, j, a)
  \/ \E t \in Threads, key \in Keys : start_generation_popen(t, key)
  \/ \E t \in Threads : start_generation_spawn_fails(t)
  \/ \E t \in Threads : write_state_open(t)
  \/ \E t \in Threads : write_state_flush(t)
  \/ \E t \in Threads : write_state_replace(t)
  \/ \E t \in Threads : generate_get_status(t)
  \/ \E t \in Threads : get_status_check(t)

SpecLaunch == Init /\ [][NextLaunch]_vars

\* The strings of an argument list.
Words(argv) == {argv[n] : n \in DOMAIN argv}

\* C23: the API credential reaches the worker through the environment only:
\* the argument list a start_generation call starts the worker with is the
\* one the call would have made with any other credential, and holds no
\* credential; the environment holds the credential.
C23_KeyOnlyInEnvironment ==
  [][\A t \in Threads, j \in JobIds :
       (/\ thread[t].op = "start_generation" /\ thread[t].pc = "spawn"
        /\ thread[t].job = j /\ proc'[j] = "alive")
       => (/\ \A key \in Keys :
                worker'[j].argv = Launch(thread[t].cmd, key).argv
           /\ Words(worker'[j].argv) \cap Keys = {}
           /\ worker'[j].environ.GEMINI_API_KEY \in Keys)]_vars

C23_Witness ==
  \E j \in JobIds :
    /\ proc[j] = "alive"
    /\ worker[j].environ.GEMINI_API_KEY = "key2"
    /\ "--seed" \in Words(worker[j].argv)

\* What can be at the pid a record holds when the Registry probes it.
ProbeKinds == {"alive", "dead", "zombie", "reused", "unreadable", "taken"}

\* A job that has been started: its record as the worker or start_generation
\* last wrote it, and any process, or none, at the pid in the record.
InitProbe ==
  \E p \in ProbeKinds, s \in {"running", "generating", "polling"} :
    LET running == [InitialState EXCEPT !.status = "running", !.pid = PidOf("J1")]
        rec == IF s = "running" THEN running
               ELSE WorkerUpdate(running, [status |-> s]) IN
    /\ canon = [j \in JobIds |-> Full(rec)]
    /\ tmpf = [j \in JobIds |-> NoFile]
    /\ proc = [j \in JobIds |-> p]
    /\ sig = [j \in JobIds |-> FALSE]
    /\ thread = [t \in Threads |-> IdleThread]
    /\ worker = [j \in JobIds |->
         IF p = "alive" THEN Started(j, WorkerAt("polling")) ELSE DeadWorker]
    /\ calls = 0

\* The Registry calls of a client that probe the pid of a record.
NextProbe ==
  \/ \E t \in Threads, j \in JobIds : get_status_read(t, j)
  \/ \E t \in Threads : get_status_check(t)
  \/ \E t \in Threads : write_state_open(t)
  \/ \E t \in Threads : write_state_flush(t)
  \/ \E t \in Threads : write_state_replace(t)
  \/ \E t \in Threads, b \in BOOLEAN : list_generations_glob(t, b)
  \/ \E t \in Threads : list_generations_read(t)
  \/ \E t \in Threads : list_generations_check(t)
  \/ \E t \in Threads : list_generations_sort(t)

SpecProbe == InitProbe /\ [][NextProbe]_vars

\* C24: _is_process_running(pid) is true exactly when the pid is that of the
\* live worker of the job: get_status, whose probe of a record without error
\* decides between returning the record and reconciling it, reconciles
\* exactly when the process at the pid is not the job's live worker (no
\* process, a zombie, or a process that is not this job's worker).
C24_ProbeTrueOnlyForOwnWorker ==
  [][\A t \in Threads :
       (/\ thread[t].op = "get_status" /\ thread[t].pc = "check"
        /\ thread'[t].pc # "check" /\ GsReconciles(thread[t].state))
       => (thread'[t].pc = "open" <=> proc[thread[t].job] # "alive")]_vars

\* C25: the status of every persisted record, in every reachable state, is
\* one of starting, running, generating, polling, completed, failed and
\* cancelled (a poll timeout is written as failed).
C25_StatusInEnumeration ==
  \A j \in JobIds : Persisted(j) => Status(j) \in Statuses

\* What a client's call can find for a job id: no file (the job was never
\* started, or its record has been removed), a file that does not parse, or
\* a record with the process at its pid.
Findable(j) ==
  { [f |-> NoFile, p |-> "unborn", w |-> NoWorker],
    [f |-> NoFile, p |-> "dead", w |-> DeadWorker],
    [f |-> NoFile, p |-> "alive", w |-> Started(j, WorkerAt("polling"))],
    [f |-> EmptyFile, p |-> "alive", w |-> Started(j, WorkerAt("polling"))],
    [f |-> TornFile, p |-> "alive", w |-> Started(j, WorkerAt("polling"))],
    [f |-> TornFile, p |-> "dead", w |-> DeadWorker],
    [f |-> TornFile, p |-> "reused", w |-> DeadWorker] }
  \cup { [f |-> Full(s.r), p |-> s.p, w |-> s.w] : s \in Stored(j) }
  \cup { [f |-> Full(WorkerUpdate([InitialState EXCEPT !.pid = PidOf(j)],
                                  [status |-> s])),
          p |-> "reused", w |-> DeadWorker] : s \in {"generating", "polling"} }
  \cup { [f |-> Full(WorkerUpdate([InitialState EXCEPT !.pid = PidOf(j)],
                                  [status |-> "generating"])),
          p |-> p, w |-> IF p = "alive" THEN Started(j, WorkerAt("polling"))
                         ELSE DeadWorker] : p \in {"alive", "dead"} }

InitLookup ==
  \E found \in [JobIds -> UNION {Findable(j) : j \in JobIds}] :
    /\ \A j \in JobIds : found[j] \in Findable(j)
    /\ canon = [j \in JobIds |-> found[j].f]
    /\ tmpf = [j \in JobIds |-> NoFile]
    /\ proc = [j \in JobIds |-> found[j].p]
    /\ sig = [j \in JobIds |-> FALSE]
    /\ thread = [t \in Threads |-> IdleThread]
    /\ worker = [j \in JobIds |-> found[j].w]
    /\ calls = 0

\* The get_status and cancel_generation calls of a client, with any job id.
NextLookup ==
  \/ \E t \in Threads, j \in JobIds : get_status_call(t, j)
  \/ \E t \in Threads : get_status_check(t)
  \/ \E t \in Threads : write_state_open(t)
  \/ \E t \in Threads : write_state_flush(t)
  \/ \E t \in Threads : write_state_replace(t)
  \/ \E t \in Threads, j \in JobIds : cancel_generation_call(t, j)
  \/ \E t \in Threads : cancel_generation_term(t)
  \/ \E t \in Threads : cancel_generation_wait(t)
  \/ \E t \in Threads : cancel_generation_sleep_all(t)
  \/ \E t \in Threads : cancel_generation_grace_over(t)
  \/ \E t \in Threads : cancel_generation_kill(t)

SpecLookup == InitLookup /\ [][NextLookup]_vars

\* C26: a get_status or cancel_generation call for a job whose record is
\* missing or does not parse returns the 'not found' result with the job id,
\* raises nothing, writes no file and signals no process.
C26_NoRecordIsNotFound ==
  [][\A t \in Threads, j \in JobIds :
       (/\ calls' # calls /\ thread'[t] # thread[t]
        /\ thread'[t].op \in {"get_status", "cancel_generation"}
        /\ thread'[t].job = j /\ ~Persisted(j))
       => (/\ thread'[t].pc = "ret"
           /\ thread'[t].ret.kind = "not_found" /\ thread'[t].ret.session
           /\ canon' = canon /\ tmpf' = tmpf
           /\ sig' = sig /\ proc' = proc /\ worker' = worker)]_vars

C26_Witness ==
  \E t \in Threads :
    /\ thread[t].op = "cancel_generation" /\ thread[t].pc = "ret"
    /\ thread[t].ret.kind = "not_found"
    /\ canon[thread[t].job].k = "torn"

\* Two jobs A = "J1" and B = "J2" that have been started, B's worker alive
\* and polling.  Either A's worker is alive too, each record holding the pid
\* of its own worker, or A's worker has exited without a last update and the
\* pid A's record holds is the one the system has since given to B's worker.
InitPair ==
  \E reuse \in BOOLEAN, s \in {"running", "polling"} :
    LET pidA == IF reuse THEN PidOf("J2") ELSE PidOf("J1")
        runA == [InitialState EXCEPT !.status = "running", !.pid = pidA]
        recA == IF s = "running" THEN runA
                ELSE WorkerUpdate(runA, [status |-> s])
        recB == WorkerUpdate([InitialState EXCEPT !.pid = PidOf("J2")],
                             [status |-> "polling"]) IN
    /\ canon = [j \in ListJobs |-> IF j = "J1" THEN Full(recA) ELSE Full(recB)]
    /\ tmpf = [j \in ListJobs |-> NoFile]
    /\ proc = [j \in ListJobs |-> IF j = "J1" /\ reuse THEN "dead" ELSE "alive"]
    /\ sig = [j \in ListJobs |-> FALSE]
    /\ thread = [t \in Threads |-> IdleThread]
    /\ worker = [j \in ListJobs |->
         IF j = "J1" /\ reuse THEN DeadWorker
         ELSE Started(j, WorkerAt("completed"))]
    /\ calls = 0

\* The get_status and cancel_generation calls of a client for either job,
\* and the two workers.  No two writers of one job overlap here, so no
\* rename finds its temporary file gone.
NextPair ==
  \/ \E t \in Threads, j \in ListJobs : get_status_call(t, j)
  \/ \E t \in Threads : get_status_check(t)
  \/ \E t \in Threads : write_state_open(t)
  \/ \E t \in Threads : write_state_flush(t)
  \/ \E t \in Threads : write_state_replace(t)
  \/ \E t \in Threads, j \in ListJobs : cancel_generation_call(t, j)
  \/ \E t \in Threads : cancel_generation_term(t)
  \/ \E t \in Threads : cancel_generation_wait(t)
  \/ \E t \in Threads : cancel_generation_sleep_all(t)
  \/ \E t \in Threads : cancel_generation_grace_over(t)
  \/ \E t \in Threads : cancel_generation_kill(t)
  \/ \E j \in ListJobs : update_state_read(j)
  \/ \E j \in ListJobs : update_state_open(j)
  \/ \E j \in ListJobs : update_state_flush(j)
  \/ \E j \in ListJobs : update_state_replace(j)
  \/ \E j \in ListJobs : worker_exit(j)
  \/ \E j \in ListJobs : signal_handler_read(j)
  \/ \E j \in ListJobs : signal_handler_open(j)
  \/ \E j \in ListJobs : signal_handler_flush(j)
  \/ \E j \in ListJobs : signal_handler_replace(j)
  \/ \E j \in ListJobs : signal_handler_exit(j)

SpecPair == InitPair /\ [][NextPair]_vars

\* C27: for distinct jobs a and b, no step of a Registry call on a and no
\* step of a's worker changes b's record or temporary file, signals b's
\* worker or ends it, also when the pid in a's record is now that of b's
\* worker.
C27_JobsIsolated ==
  [][\A a \in ListJobs : \A b \in ListJobs \ {a} :
       (\/ \E t \in Threads : thread[t].job = a /\ thread'[t] # thread[t]
        \/ worker'[a] # worker[a])
       => (/\ canon'[b] = canon[b] /\ tmpf'[b] = tmpf[b]
           /\ sig'[b] = sig[b] /\ proc'[b] = proc[b])]_vars

\* The place of a status in the order a job goes through without failure or
\* cancellation.
Forward == <<"starting", "running", "generating", "polling", "completed">>
Rank(status) == CHOOSE n \in DOMAIN Forward : Forward[n] = status

\* C28: while the worker of a job is alive and neither a failure nor a
\* cancellation is recorded, the persisted status only moves forward in the
\* order starting, running, generating, polling, completed.
C28_StatusMovesForward ==
  [][\A j \in JobIds :
       (/\ proc[j] = "alive" /\ proc'[j] = "alive"
        /\ Persisted(j) /\ canon'[j].k = "full"
        /\ Status(j) \in NonTerminal \cup {"completed"}
        /\ canon'[j].r.status \in NonTerminal \cup {"completed"})
       => Rank(Status(j)) <= Rank(canon'[j].r.status)]_vars

\* Thread t's _write_state for job j fails in this step: its rename finds
\* no temporary file.
ThreadWriteFails(t, j) ==
  /\ thread[t].job = j /\ thread[t].pc = "replace" /\ ~CanReplace(j)
  /\ thread'[t].pc # "replace" \/ thread'[t].op # thread[t].op

\* The same for an _update_state of the worker's main flow.
WorkerWriteFails(j) ==
  /\ worker[j].pc = "replace" /\ ~CanReplace(j)
  /\ worker'[j].pc # "replace"

\* C29: a write of a record that fails leaves the canonical file without
\* the record it was writing (it holds what it held before) and leaves no
\* temporary file.
C29_FailedWriteChangesNothing ==
  [][\A j \in JobIds :
       /\ \A t \in Threads :
            ThreadWriteFails(t, j)
            => (canon'[j] # Full(thread[t].state) /\ tmpf'[j].k = "none")
       /\ WorkerWriteFails(j)
            => (canon'[j] # Full(worker[j].state) /\ tmpf'[j].k = "none")]_vars

\* C30: in every reachable state a persisted record with status starting
\* holds no pid.
C30_StartingHasNoPid ==
  \A j \in JobIds : (Persisted(j) /\ Status(j) = "starting") => canon[j].r.pid = 0

C30_Witness ==
  \E j \in JobIds :
    /\ proc[j] = "alive" /\ worker[j].pc # "boot"
    /\ Persisted(j) /\ Status(j) = "starting" /\ canon[j].r.pid = 0

\* The worker of one job after start_generation has returned, with nobody
\* else touching the job's files: the record holds running and the pid, the
\* process has just been started.  Somebody may send it SIGTERM or SIGINT at
\* any point.  The rename of an _update_state cannot fail here (only another
\* process could make the temporary file disappear).
InitWorker ==
  /\ canon = [j \in JobIds |->
       Full(Spawned(Aged(InitialState), PidOf(j)))]
  /\ tmpf = [j \in JobIds |-> NoFile]
  /\ proc = [j \in JobIds |-> "alive"]
  /\ sig = [j \in JobIds |-> FALSE]
  /\ thread = [t \in Threads |-> IdleThread]
  /\ worker = [j \in JobIds |-> Started(j, NoWorker)]
  /\ calls = 0

NextWorker ==
  \/ \E j \in JobIds : worker_boot(j)
  \/ \E j \in JobIds : worker_boot_fails(j)
  \/ \E j \in JobIds : update_state_read(j)
  \/ \E j \in JobIds : update_state_open(j)
  \/ \E j \in JobIds : update_state_flush(j)
  \/ \E j \in JobIds : update_state_replace(j)
  \/ \E j \in JobIds : worker_exit(j)
  \/ \E j \in JobIds : term_out_of_band(j)
  \/ \E j \in JobIds : signal_handler_read(j)
  \/ \E j \in JobIds : signal_handler_open(j)
  \/ \E j \in JobIds : signal_handler_flush(j)
  \/ \E j \in JobIds : signal_handler_replace(j)
  \/ \E j \in JobIds : signal_handler_exit(j)

SpecWorker == InitWorker /\ [][NextWorker]_vars

\* The signal handler of job j's worker ends the process in this step.
HandlerExits(j) ==
  /\ proc[j] = "alive" /\ worker[j].hpc = "exit"
  /\ proc'[j] = "dead"

\* C31: when the worker's signal handler ends the process, the record file
\* it leaves behind is a complete record with status cancelled and the
\* interruption message, at whatever point of the worker's run (in the
\* middle of one of its own updates included) the signal arrived.
C31_SignalLeavesCancelled ==
  [][\A j \in JobIds :
       HandlerExits(j)
       => /\ canon'[j].k = "full"
          /\ canon'[j].r.status = "cancelled"
          /\ canon'[j].r.error = "interrupted"]_vars

\* C32: in every reachable state a persisted record with status completed
\* has a non-empty artifact list.
C32_CompletedHasVideos ==
  \A j \in JobIds :
    (Persisted(j) /\ Status(j) = "completed") => canon[j].r.videos > 0

C32_Witness ==
  \E j \in JobIds :
    /\ Persisted(j) /\ Status(j) = "completed" /\ canon[j].r.videos > 0
    /\ proc[j] = "dead"

\* ------------------------------------------------ the worker's poll loop
\* poll_until_complete, line 208: elapsed > max_wait_time.
TimedOut(elapsed) == elapsed > MaxWaitTime

\* A loop whose sleep would let no time pass.
SleptNothing(elapsed) == elapsed

\* poll_until_complete, line 231: the clock after time.sleep(20).
Slept(elapsed) == elapsed + PollInterval

\* What one client.operations.get that returns can show: the operation is
\* not done, done with videos, done with an error (line 164), or done
\* without videos / the call or the result raises (lines 172, 199, 233).
GetResults == {"pending", "completed", "cb_failed", "failed"}

\* poll_until_complete, lines 157-226: one operations.get, which takes d
\* seconds and returns, and what the loop does with its result: return, or
\* the timeout test and one of the two callbacks.
poll_get(j, d, out) ==
  LET e == worker[j].elapsed + d IN
  /\ MainRuns(j) /\ worker[j].pc = "poll"
  /\ worker' = [worker EXCEPT ![j].elapsed = e, ![j].pc = "read",
       ![j].phase = IF out # "pending" THEN out
                    ELSE IF TimedOut(e) THEN "cb_timeout" ELSE "poll_cb"]
  /\ UNCHANGED <<canon, tmpf, proc, sig, thread, calls>>

\* The rename of the progress callback's _update_state (generation_worker
\* lines 199-209, 67): the callback returns into the loop.
poll_callback_replace(j) ==
  /\ MainRuns(j) /\ worker[j].pc = "replace" /\ worker[j].phase = "poll_cb"
  /\ CanReplace(j)
  /\ ReplaceFiles(j)
  /\ worker' = [WorkerAfterReplace(j) EXCEPT ![j].pc = "sleep"]
  /\ thread' = ThreadsAfterReplace(j)
  /\ UNCHANGED <<proc, sig, calls>>

\* The rename of every other update of generate.
poll_update_replace(j) ==
  /\ worker[j].phase # "poll_cb"
  /\ update_state_replace(j)

\* poll_until_complete, lines 230-231.
poll_sleep(j) ==
  /\ MainRuns(j) /\ worker[j].pc = "sleep"
  /\ worker' = [worker EXCEPT ![j].pc = "poll",
                              ![j].elapsed = Slept(worker[j].elapsed)]
  /\ UNCHANGED <<canon, tmpf, proc, sig, thread, calls>>

\* The worker alone, at the call of poll_until_complete (generate, line
\* 211): the polling update of line 191 is in the record.
InitPoll ==
  /\ canon = [j \in JobIds |->
       Full(WorkerUpdate(Spawned(Aged(InitialState), PidOf(j)),
                         [status |-> "polling"]))]
  /\ tmpf = [j \in JobIds |-> NoFile]
  /\ proc = [j \in JobIds |-> "alive"]
  /\ sig = [j \in JobIds |-> FALSE]
  /\ thread = [t \in Threads |-> IdleThread]
  /\ worker = [j \in JobIds |->
       Started(j, [NoWorker EXCEPT !.pc = "poll", !.phase = "polling"])]
  /\ calls = 0

NextPoll ==
  \/ \E j \in JobIds, d \in 0..MaxCallSeconds, out \in GetResults :
       poll_get(j, d, out)
  \/ \E j \in JobIds : update_state_read(j)
  \/ \E j \in JobIds : update_state_open(j)
  \/ \E j \in JobIds : update_state_flush(j)
  \/ \E j \in JobIds : poll_callback_replace(j)
  \/ \E j \in JobIds : poll_update_replace(j)
  \/ \E j \in JobIds : poll_sleep(j)
  \/ \E j \in JobIds : worker_exit(j)

\* The worker is a sequential process that the system keeps running, and
\* every operations.get returns.
SpecPoll == InitPoll /\ [][NextPoll]_vars /\ WF_vars(NextPoll)

\* C33: provided every remote poll call returns, the worker's polling loop
\* ends and the worker stops; the time the loop measures never passes
\* max_wait_time by more than one interval and one call; and a loop that ends
\* because the time is up leaves status failed with the timeout error.
C33_PollLoopTerminates ==
  /\ <>(\A j \in JobIds : proc[j] = "dead")
  /\ [](\A j \in JobIds :
         worker[j].elapsed <= MaxWaitTime + PollInterval + MaxCallSeconds)
  /\ [](\A j \in JobIds :
         worker[j].phase \in {"cb_timeout", "timeout"}
         => <>(/\ proc[j] = "dead" /\ Persisted(j)
               /\ Status(j) = "failed" /\ canon[j].r.error = "timeout"))

C33_Witness ==
  \E j \in JobIds :
    /\ proc[j] = "dead" /\ Persisted(j)
    /\ Status(j) = "failed" /\ canon[j].r.error = "timeout"

\* -------------------------------------------------- the worker's startup
\* What veo_generate_video (video_generation.py lines 35-159) passes to
\* start_generation: the model is one of the tool's two, duration_seconds is
\* parse_int_param of the client's value, None when the client gives none,
\* and str(None) is what line 171 of start_generation puts on the command
\* line.
ToolRequests ==
  [prompt : {"cat"},
   model : {"veo-2.0-generate-001", "veo-3.0-generate-preview"},
   aspect_ratio : {"16:9"}, person_generation : {"allow_adult"},
   number_of_videos : {"1"}, duration_seconds : {"None", "8"},
   negative_prompt : {"none", "blur"}, resolution : {"none"},
   seed : {"none", "0"}, output_gcs_uri : {"none"},
   enhance_prompt : {FALSE}, generate_audio : {FALSE}, fps : {"none"},
   download_path : {"none"}]

\* The word that follows flag on the command line, "absent" without it.
ArgValue(argv, flag) ==
  IF \E i \in 1..(Len(argv) - 1) : argv[i] = flag
  THEN argv[(CHOOSE i \in 1..(Len(argv) - 1) : argv[i] = flag) + 1]
  ELSE "absent"

\* main(), lines 261-266: the choices of --model.
ModelChoices ==
  {"veo-2.0-generate-001", "veo-3.0-generate-preview",
   "veo-3.0-fast-generate-preview"}

\* The words int() accepts, among those of the model.
IntWords == {"0", "1", "8", "24"}

\* main(), lines 257-286: parser.parse_args() rejects the command line
\* (parser.error prints the usage and calls sys.exit(2)).
ParseRejects(argv) ==
  \/ ArgValue(argv, "--session-id") = "absent"
  \/ ArgValue(argv, "--state-dir") = "absent"
  \/ ArgValue(argv, "--model") \notin ModelChoices \cup {"absent"}
  \/ ArgValue(argv, "--aspect-ratio") \notin {"16:9", "9:16", "absent"}
  \/ ArgValue(argv, "--number-of-videos") \notin IntWords \cup {"absent"}
  \/ ArgValue(argv, "--duration-seconds") \notin IntWords \cup {"absent"}
  \/ ArgValue(argv, "--seed") \notin IntWords \cup {"absent"}

\* main(), lines 285-292, with the command line the process was started
\* with: SystemExit from parse_args is no Exception, so the except of line
\* 293 does not run and the process ends; otherwise generate begins.
worker_main(j) ==
  /\ MainRuns(j) /\ worker[j].pc = "boot"
  /\ IF ParseRejects(worker[j].argv)
     THEN /\ proc' = [proc EXCEPT ![j] = "dead"]
          /\ worker' = [worker EXCEPT ![j] = DeadWorker]
     ELSE /\ worker' = [worker EXCEPT ![j].pc = "read", ![j].phase = "generating"]
          /\ UNCHANGED proc
  /\ UNCHANGED <<canon, tmpf, sig, thread, calls>>

\* A worker that veo_generate_video has just started, alone with the job's
\* files.
InitBoot ==
  \E a \in ToolRequests :
    /\ canon = [j \in JobIds |->
         Full(Spawned(Aged(InitialState), PidOf(j)))]
    /\ tmpf = [j \in JobIds |-> NoFile]
    /\ proc = [j \in JobIds |-> "alive"]
    /\ sig = [j \in JobIds |-> FALSE]
    /\ thread = [t \in Threads |-> IdleThread]
    /\ worker = [j \in JobIds |->
         [NoWorker EXCEPT !.argv = Launch(Cmd(j, a), ServerKey).argv,
                          !.environ = Launch(Cmd(j, a), ServerKey).environ]]
    /\ calls = 0

NextBoot ==
  \/ \E j \in JobIds : worker_main(j)
  \/ \E j \in JobIds : update_state_read(j)
  \/ \E j \in JobIds : update_state_open(j)
  \/ \E j \in JobIds : update_state_flush(j)
  \/ \E j \in JobIds : update_state_replace(j)
  \/ \E j \in JobIds : worker_exit(j)

SpecBoot == InitBoot /\ [][NextBoot]_vars

\* The worker of job j ends by itself in this step without having reported
\* a result of the generation.
ExitsWithoutResult(j) ==
  /\ proc[j] = "alive" /\ proc'[j] = "dead"
  /\ worker[j].phase # "completed"

\* C34: whenever the worker process ends by itself other than after a
\* completed generation, the last thing it did with the job's record was an
\* attempt to write status failed with an error message.
C34_StartupExitWritesFailed ==
  [][\A j \in JobIds :
       ExitsWithoutResult(j)
       => /\ worker[j].state.status = "failed"
          /\ worker[j].state.error # "none"]_vars

\* C35: once a job's persisted record has status completed, every later
\* state holds a record with status completed and the same artifact list.
C35_CompletedStays ==
  [][\A j \in JobIds :
       (Persisted(j) /\ Status(j) = "completed")
       => /\ canon'[j].k = "full"
          /\ canon'[j].r.status = "completed"
          /\ canon'[j].r.videos = canon[j].r.videos]_vars

\* A cancel_generation call on job j has returned success (lines 343-347).
CancelReturned(j) ==
  \E t \in Threads :
    /\ thread[t].job = j /\ thread[t].pc = "ret"
    /\ thread[t].ret.kind = "cancelled"

\* C36: in every state after cancel_generation has returned success for a
\* job, the job's persisted record has status cancelled.
C36_CancelledStays ==
  \A j \in JobIds :
    CancelReturned(j) => (Persisted(j) /\ Status(j) = "cancelled")

\* C37: a process that has taken over the pid of a worker that is gone is
\* never sent a signal by cancel_generation.
C37_StrangerNeverSignalled ==
  [][\A j \in JobIds : proc[j] = "reused" => proc'[j] = "reused"]_vars

\* C38: once the record of a job that was started is gone (only
\* veo_cleanup_sessions removes one), no step puts a file at the record's
\* path again.
C38_RemovedStaysRemoved ==
  [][\A j \in JobIds :
       (proc[j] # "unborn" /\ canon[j].k = "none") => canon'[j].k = "none"]_vars

\* start_generation on thread t returns its failure result (line 244) in
\* this step.
StartReturnsFailed(t) ==
  /\ thread[t].op = "start_except" /\ thread'[t].op # "start_except"
  /\ thread'[t].sg \notin {"none", "started"}

\* C39: whenever start_generation returns status failed for a job, no
\* worker process of that job is running.
C39_FailedStartLeavesNoWorker ==
  [][\A t \in Threads :
       StartReturnsFailed(t) => proc'[thread[t].job] # "alive"]_vars

\* The list of downloads of record st holds at most one entry per index.
OneEntryPerIndex(st) ==
  \A m, n \in DOMAIN st.downloaded :
    m # n => st.downloaded[m].index # st.downloaded[n].index

\* Every entry of the list of downloads of st is for one of st's artifacts.
EntriesInRange(st) ==
  \A n \in DOMAIN st.downloaded : st.downloaded[n].index < st.videos

\* C40: in every reachable state the list of downloads of a persisted record
\* holds at most one entry per artifact index, and the index of every entry
\* is that of an element of the record's artifact list.
C40_DownloadsMatchVideos ==
  \A j \in JobIds :
    Persisted(j) => (OneEntryPerIndex(canon[j].r) /\ EntriesInRange(canon[j].r))

====
